---- MODULE Spec2Model ----
(***************************************************************************)
(* ACF -> GeoDirectory CSV transformation (transform.py and                *)
(* stcroix_locations.py) as a state machine.                               *)
(*                                                                         *)
(* A Python str is a sequence of one-character strings, so that strip,     *)
(* startswith, replace, lower, title and the substring test are computed   *)
(* character by character as Python computes them.  Python's None is the   *)
(* value None below, which no string equals.                               *)
(***************************************************************************)
EXTENDS Integers, Sequences, FiniteSets, TLC

VARIABLES
    NAME_ID_MAP,          \* transform.py:34, <<>> for None
    mapping_files,        \* the mapping files on disk
    cache_json,           \* address_cache.json on disk
    args,                 \* the keyword arguments of transform_csv
    input,                \* the input file
    pc,                   \* where the run is
    address_cache,        \* transform.py:562
    row_count,            \* transform.py:632
    processed_count,      \* transform.py:633
    unmapped_categories,  \* transform.py:636
    unmapped_tags,        \* transform.py:637
    out_file,             \* what the output path holds
    out_lines,            \* the lines written by the run
    printed,              \* the messages printed
    exit_status,          \* <<>> until the process has exited
    call,                 \* a library function applied on its own
    ret                   \* and its result

vars ==
    <<NAME_ID_MAP, mapping_files, cache_json, args, input, pc, address_cache,
      row_count, processed_count, unmapped_categories, unmapped_tags,
      out_file, out_lines, printed, exit_status, call, ret>>

(***************************************************************************)
(* Bounds of the model.                                                    *)
(***************************************************************************)
\* Longest social-media value, counted in pieces of SocialPieces.
MaxPieces == 4

(***************************************************************************)
(* Python values and str methods.                                          *)
(***************************************************************************)
None == <<"None">>

\* Python truthiness of a str-or-None: `not value`.
Falsy(v) == v = None \/ v = <<>>

RECURSIVE LStripIf(_, _)
\* s without its longest prefix of characters of the set cs.
LStripIf(s, cs) ==
    IF s # <<>> /\ Head(s) \in cs THEN LStripIf(Tail(s), cs) ELSE s

RECURSIVE RStripIf(_, _)
\* s without its longest suffix of characters of the set cs.
RStripIf(s, cs) ==
    IF s # <<>> /\ s[Len(s)] \in cs
    THEN RStripIf(SubSeq(s, 1, Len(s) - 1), cs)
    ELSE s

Whitespace == {" ", "\t", "\n", "\r"}

\* str.strip()
Strip(s) == RStripIf(LStripIf(s, Whitespace), Whitespace)

\* str.rstrip(chars) and str.lstrip(chars) for a one-character argument
RStripChar(s, c) == RStripIf(s, {c})
LStripChar(s, c) == LStripIf(s, {c})

\* str.startswith(p)
StartsWith(s, p) == Len(s) >= Len(p) /\ SubSeq(s, 1, Len(p)) = p

\* s[n:]
DropFirst(s, n) == SubSeq(s, n + 1, Len(s))

\* The positions at which `sub` occurs in s.
Occurrences(s, sub) ==
    {i \in 1..(Len(s) - Len(sub) + 1) : SubSeq(s, i, i + Len(sub) - 1) = sub}

\* `sub in s`
Contains(s, sub) == sub = <<>> \/ Occurrences(s, sub) # {}

SetMin(S) == CHOOSE x \in S : \A y \in S : x <= y

\* str.replace(old, new, 1): the first occurrence only, for a non-empty old
ReplaceFirst(s, old, new) ==
    IF Occurrences(s, old) = {}
    THEN s
    ELSE LET i == SetMin(Occurrences(s, old))
         IN  SubSeq(s, 1, i - 1) \o new \o DropFirst(s, i + Len(old) - 1)

(***************************************************************************)
(* transform.py:17-27                                                      *)
(***************************************************************************)
S_http == <<"h","t","t","p">>
S_http_scheme == <<"h","t","t","p",":","/","/">>
S_https_scheme == <<"h","t","t","p","s",":","/","/">>
S_in == <<"i","n","/">>
S_company == <<"c","o","m","p","a","n","y","/">>

SOCIAL_MEDIA_URLS ==
    [facebook |-> <<"h","t","t","p","s",":","/","/","w","w","w",".","f","a","c","e","b","o","o","k",".","c","o","m","/">>,
     twitter |-> <<"h","t","t","p","s",":","/","/","t","w","i","t","t","e","r",".","c","o","m","/">>,
     instagram |-> <<"h","t","t","p","s",":","/","/","w","w","w",".","i","n","s","t","a","g","r","a","m",".","c","o","m","/">>,
     pinterest |-> <<"h","t","t","p","s",":","/","/","w","w","w",".","p","i","n","t","e","r","e","s","t",".","c","o","m","/">>,
     youtube |-> <<"h","t","t","p","s",":","/","/","w","w","w",".","y","o","u","t","u","b","e",".","c","o","m","/","@">>,
     linkedin |-> <<"h","t","t","p","s",":","/","/","w","w","w",".","l","i","n","k","e","d","i","n",".","c","o","m","/">>,
     trip_advisor |-> <<"h","t","t","p","s",":","/","/","w","w","w",".","t","r","i","p","a","d","v","i","s","o","r",".","c","o","m","/">>,
     yelp |-> <<"h","t","t","p","s",":","/","/","w","w","w",".","y","e","l","p",".","c","o","m","/","b","i","z","/">>]

(***************************************************************************)
(* transform.py:282-297                                                    *)
(***************************************************************************)
clean_url(url) ==
    IF Falsy(url) THEN <<>>
    ELSE LET u == Strip(url)
         IN  IF StartsWith(u, S_http_scheme) \/ StartsWith(u, S_https_scheme)
             THEN u
             ELSE IF u # <<>> /\ ~StartsWith(u, S_http)
                  THEN S_https_scheme \o u
                  ELSE u

(***************************************************************************)
(* transform.py:299-353                                                    *)
(***************************************************************************)
\* A faulty variant of clean_username: the leading '@' symbols are kept.
clean_username_KeepAt(value) ==
    Strip(RStripChar(value, "/"))

\* A faulty variant of linkedin_url: 'in/' is always prepended.
linkedin_url_AlwaysIn(username) ==
    SOCIAL_MEDIA_URLS["linkedin"] \o S_in \o username

\* Lines 326-334: the handle left of a value that is not a URL.
clean_username(value) ==
    Strip(LStripChar(RStripChar(value, "/"), "@"))

\* Lines 339-346.
linkedin_url(username) ==
    IF StartsWith(username, S_in) \/ StartsWith(username, S_company)
    THEN SOCIAL_MEDIA_URLS["linkedin"] \o username
    ELSE SOCIAL_MEDIA_URLS["linkedin"] \o S_in \o username

\* str.replace(old, new): every occurrence, left to right, for a non-empty old
RECURSIVE ReplaceAll(_, _, _)
ReplaceAll(s, old, new) ==
    IF Occurrences(s, old) = {}
    THEN s
    ELSE LET i == SetMin(Occurrences(s, old))
         IN  SubSeq(s, 1, i - 1) \o new
                 \o ReplaceAll(DropFirst(s, i + Len(old) - 1), old, new)

\* A faulty variant of upgrade_url: replace() without its count argument.
upgrade_url_EveryScheme(value) ==
    IF StartsWith(value, S_http_scheme)
    THEN ReplaceAll(value, S_http_scheme, S_https_scheme)
    ELSE value

\* A faulty variant of transform_social_url: the `if not username` test of line 336
\* is missing.
transform_social_url_NoEmptyTest(platform, value) ==
    IF Falsy(value) THEN <<>>
    ELSE LET v == Strip(value)
         IN  IF v = <<>> THEN <<>>
             ELSE IF StartsWith(v, S_http_scheme) \/ StartsWith(v, S_https_scheme)
             THEN IF StartsWith(v, S_http_scheme)
                  THEN ReplaceFirst(v, S_http_scheme, S_https_scheme)
                  ELSE v
             ELSE LET username == Strip(LStripChar(RStripChar(v, "/"), "@"))
                  IN  IF platform = "linkedin"
                      THEN IF StartsWith(username, S_in) \/ StartsWith(username, S_company)
                           THEN SOCIAL_MEDIA_URLS["linkedin"] \o username
                           ELSE SOCIAL_MEDIA_URLS["linkedin"] \o S_in \o username
                      ELSE IF platform \in DOMAIN SOCIAL_MEDIA_URLS
                      THEN SOCIAL_MEDIA_URLS[platform] \o username
                      ELSE clean_url(v)

\* Lines 319-324: a value that is already a URL.
upgrade_url(value) ==
    IF StartsWith(value, S_http_scheme)
    THEN ReplaceFirst(value, S_http_scheme, S_https_scheme)
    ELSE value

transform_social_url(platform, value) ==
    IF Falsy(value) THEN <<>>
    ELSE LET v == Strip(value)
         IN  IF v = <<>> THEN <<>>
             ELSE IF StartsWith(v, S_http_scheme) \/ StartsWith(v, S_https_scheme)
             THEN upgrade_url(v)
             ELSE LET username == clean_username(v)
                  IN  IF username = <<>> THEN <<>>
                      ELSE IF platform = "linkedin" THEN linkedin_url(username)
                      ELSE IF platform \in DOMAIN SOCIAL_MEDIA_URLS
                      THEN SOCIAL_MEDIA_URLS[platform] \o username
                      ELSE clean_url(v)

(***************************************************************************)
(* More of Python's str: case, split, join, str(int).                      *)
(***************************************************************************)
\* The printable ASCII characters in code-point order, from ' ' (32) on.
\* (A TLA+ string cannot hold the backquote: "BACKQUOTE" keeps its place.)
Ascii ==
    <<
      " ", "!", "\"", "#", "$", "%", "&", "'", "(", ")", "*", "+", ",", "-", ".", "/",
      "0", "1", "2", "3", "4", "5", "6", "7", "8", "9", ":", ";", "<", "=", ">", "?",
      "@", "A", "B", "C", "D", "E", "F", "G", "H", "I", "J", "K", "L", "M", "N", "O",
      "P", "Q", "R", "S", "T", "U", "V", "W", "X", "Y", "Z", "[", "\\", "]", "^", "_",
      "BACKQUOTE", "a", "b", "c", "d", "e", "f", "g", "h", "i", "j", "k", "l", "m", "n", "o",
      "p", "q", "r", "s", "t", "u", "v", "w", "x", "y", "z", "{", "|", "}", "~"
    >>

AsciiSet == {Ascii[i] : i \in 1..Len(Ascii)}

\* The place of a character in Ascii (0 for a control character).
Ord == [c \in AsciiSet \cup Whitespace |->
          IF c \in AsciiSet THEN CHOOSE i \in 1..Len(Ascii) : Ascii[i] = c ELSE 0]

Digits == {"0", "1", "2", "3", "4", "5", "6", "7", "8", "9"}

\* The cased characters: the i-th of Uppers and the i-th of Lowers are the
\* two cases of one letter.
Uppers ==
    <<"A", "B", "C", "D", "E", "F", "G", "H", "I", "J", "K", "L", "M",
      "N", "O", "P", "Q", "R", "S", "T", "U", "V", "W", "X", "Y", "Z">>
Lowers ==
    <<"a", "b", "c", "d", "e", "f", "g", "h", "i", "j", "k", "l", "m",
      "n", "o", "p", "q", "r", "s", "t", "u", "v", "w", "x", "y", "z">>
UpperLetters == {Uppers[i] : i \in 1..Len(Uppers)}
LowerLetters == {Lowers[i] : i \in 1..Len(Lowers)}
LowerOf == [c \in UpperLetters |-> Lowers[CHOOSE i \in 1..Len(Uppers) : Uppers[i] = c]]
UpperOf == [c \in LowerLetters |-> Uppers[CHOOSE i \in 1..Len(Lowers) : Lowers[i] = c]]

LowerChar(c) == IF c \in DOMAIN LowerOf THEN LowerOf[c] ELSE c
UpperChar(c) == IF c \in DOMAIN UpperOf THEN UpperOf[c] ELSE c
IsCased(c) == c \in DOMAIN LowerOf \/ c \in DOMAIN UpperOf

\* str.lower()
Lower(s) == [i \in 1..Len(s) |-> LowerChar(s[i])]

\* str.title(): a cased character is upper-cased when the character before it
\* is not cased (or there is none) and lower-cased otherwise.
Title(s) ==
    [i \in 1..Len(s) |->
        IF i > 1 /\ IsCased(s[i - 1]) THEN LowerChar(s[i]) ELSE UpperChar(s[i])]

\* str.isdigit()
IsDigitStr(s) == s # <<>> /\ \A i \in 1..Len(s) : s[i] \in Digits

RECURSIVE SplitOn(_, _)
\* re.split('[seps]', s) and str.split(sep): the pieces between separator
\* characters, empty pieces included.
SplitOn(s, seps) ==
    LET cuts == {i \in 1..Len(s) : s[i] \in seps}
    IN  IF cuts = {} THEN <<s>>
        ELSE LET i == SetMin(cuts)
             IN  <<SubSeq(s, 1, i - 1)>> \o SplitOn(DropFirst(s, i), seps)

RECURSIVE Join(_, _)
\* sep.join(parts)
Join(sep, parts) ==
    IF parts = <<>> THEN <<>>
    ELSE IF Len(parts) = 1 THEN parts[1]
    ELSE parts[1] \o sep \o Join(sep, Tail(parts))

RECURSIVE NatToStr(_)
\* str(n) for an int n >= 0
NatToStr(n) ==
    IF n < 10 THEN <<Ascii[Ord["0"] + n]>>
    ELSE NatToStr(n \div 10) \o <<Ascii[Ord["0"] + (n % 10)]>>

(***************************************************************************)
(* transform.py:33-74: the module-level name-to-ID map.                    *)
(*                                                                         *)
(* _NAME_ID_MAP is <<>> while it is None and <<m>> once it holds the JSON  *)
(* object m, a function from map types ("categories", "tags") to functions *)
(* from names to IDs.  A mapping file holds a JSON object or null.         *)
(***************************************************************************)
N_Eat == <<"E","a","t">>
N_Play == <<"P","l","a","y">>
N_BBQ == <<"B","B","Q">>
N_Beach == <<"B","e","a","c","h">>
N_Uncategorized == <<"U","n","c","a","t","e","g","o","r","i","z","e","d">>

\* Categories and tags, as categories_and_tags.json may hold them.
Map_Full ==
    [categories |-> (N_Eat :> 2041) @@ (N_Play :> 2042) @@ (N_BBQ :> 2043),
     tags |-> (N_Beach :> 2050)]

\* An empty 'tags' section.
Map_NoTags ==
    [categories |-> (N_Eat :> 2041) @@ (N_Play :> 2042) @@ (N_Uncategorized :> 2040),
     tags |-> <<>>]

\* No 'tags' section at all.
Map_CategoriesOnly == [categories |-> (N_Play :> 2042)]

JsonNull == <<>>
JsonObject(m) == <<m>>

\* The path main() loads (line 1118).
MAPPING_PATH == "categories_and_tags.json"

\* Mapping files on disk: path -> what json.load returns.  A path that is
\* not in the domain does not exist.
MappingFiles ==
    (MAPPING_PATH :> JsonObject(Map_Full))
        @@ ("no_tags.json" :> JsonObject(Map_NoTags))
        @@ ("categories_only.json" :> JsonObject(Map_CategoriesOnly))
        @@ ("empty.json" :> JsonObject(<<>>))
        @@ ("null.json" :> JsonNull)

MappingPaths == DOMAIN MappingFiles \cup {"missing.json"}

\* The outcome of a call: a value returned or an exception raised.
Returns(v) == [exc |-> "none", value |-> v]
Raises(e) == [exc |-> e, value |-> <<>>]

\* A faulty variant of load_name_id_map: the `is not None` test of line 44 is missing,
\* so every call reads the file again.
load_name_id_map_Reload(map, files, json_path) ==
    IF json_path \notin DOMAIN files
    THEN [map |-> map, out |-> Raises("FileNotFoundError"), opened |-> FALSE]
    ELSE [map |-> files[json_path], out |-> Returns(None), opened |-> TRUE]

\* load_name_id_map(json_path) with _NAME_ID_MAP = map and the mapping files
\* `files` on disk: the new map, the outcome, and whether open() (line 52)
\* gave a file to read.
load_name_id_map(map, files, json_path) ==
    IF map # <<>>
    THEN [map |-> map, out |-> Returns(None), opened |-> FALSE]
    ELSE IF json_path \notin DOMAIN files
    THEN [map |-> map, out |-> Raises("FileNotFoundError"), opened |-> FALSE]
    ELSE [map |-> files[json_path], out |-> Returns(None), opened |-> TRUE]

\* get_id_by_name(name, map_type) with _NAME_ID_MAP = map
get_id_by_name(map, name, map_type) ==
    IF map = <<>> THEN Raises("RuntimeError")
    ELSE IF map_type \notin DOMAIN map[1] THEN Raises("KeyError")
    ELSE IF name \notin DOMAIN map[1][map_type] THEN Raises("KeyError")
    ELSE Returns(map[1][map_type][name])

(***************************************************************************)
(* transform.py:76-169                                                     *)
(***************************************************************************)
FALLBACK_ID == 2040

\* Lines 113-125: the ID of one stripped, non-empty name and whether the
\* fallback was taken.  A RuntimeError (no map loaded) is not caught.
lookup_name(map, name, map_type, fallback_id) ==
    LET decide(exact, titled) ==
            IF exact.exc = "none"
            THEN [exc |-> "none", id |-> exact.value, unmapped |-> FALSE]
            ELSE IF exact.exc # "KeyError"
            THEN [exc |-> exact.exc, id |-> 0, unmapped |-> FALSE]
            ELSE IF titled.exc = "none"
            THEN [exc |-> "none", id |-> titled.value, unmapped |-> FALSE]
            ELSE IF titled.exc # "KeyError"
            THEN [exc |-> titled.exc, id |-> 0, unmapped |-> FALSE]
            ELSE [exc |-> "none", id |-> fallback_id, unmapped |-> TRUE]
    IN  decide(get_id_by_name(map, name, map_type),
               get_id_by_name(map, Title(name), map_type))

RECURSIVE names_loop_NoDedup(_, _, _, _, _, _)
\* A faulty variant of names_loop: the `id_val not in seen_ids` test of line
\* 128 is missing.
names_loop_NoDedup(map, names, map_type, fallback_id, ids, tracker) ==
    LET rest == Tail(names)
        step(name, found) ==
            IF found.exc # "none"
            THEN [exc |-> found.exc, ids |-> ids, tracker |-> tracker]
            ELSE names_loop_NoDedup(map, rest, map_type, fallback_id,
                                    Append(ids, found.id),
                                    IF found.unmapped THEN tracker \cup {name}
                                    ELSE tracker)
        each(name) ==
            IF name = <<>>
            THEN names_loop_NoDedup(map, rest, map_type, fallback_id, ids, tracker)
            ELSE step(name, lookup_name(map, name, map_type, fallback_id))
    IN  IF names = <<>> THEN [exc |-> "none", ids |-> ids, tracker |-> tracker]
        ELSE each(Strip(Head(names)))

RECURSIVE names_loop(_, _, _, _, _, _)
\* Lines 108-130: the loop over the split names, from the IDs collected so
\* far and the tracker as it stands.
names_loop(map, names, map_type, fallback_id, ids, tracker) ==
    LET rest == Tail(names)
        step(name, found) ==
            IF found.exc # "none"
            THEN [exc |-> found.exc, ids |-> ids, tracker |-> tracker]
            ELSE names_loop(map, rest, map_type, fallback_id,
                            IF \E i \in 1..Len(ids) : ids[i] = found.id
                            THEN ids ELSE Append(ids, found.id),
                            IF found.unmapped THEN tracker \cup {name} ELSE tracker)
        each(name) ==
            IF name = <<>>
            THEN names_loop(map, rest, map_type, fallback_id, ids, tracker)
            ELSE step(name, lookup_name(map, name, map_type, fallback_id))
    IN  IF names = <<>> THEN [exc |-> "none", ids |-> ids, tracker |-> tracker]
        ELSE each(Strip(Head(names)))

\* ',' + ','.join(str(id) ...) + ','
format_ids(ids) ==
    <<",">> \o Join(<<",">>, [i \in 1..Len(ids) |-> NatToStr(ids[i])]) \o <<",">>

\* A faulty variant of transform_names_to_ids: a name the tracker already
\* holds is not looked up again.
transform_names_to_ids_SkipTracked(map, text, map_type, separators, fallback_id, unmapped_tracker) ==
    LET finish(done) ==
            IF done.exc # "none"
            THEN [out |-> Raises(done.exc), tracker |-> done.tracker]
            ELSE IF done.ids = <<>>
            THEN [out |-> Returns(<<>>), tracker |-> done.tracker]
            ELSE [out |-> Returns(format_ids(done.ids)), tracker |-> done.tracker]
    IN  IF Falsy(text) \/ Strip(text) = <<>>
        THEN [out |-> Returns(<<>>), tracker |-> unmapped_tracker]
        ELSE finish(names_loop(map,
                               SelectSeq(SplitOn(text, separators),
                                         LAMBDA n : Strip(n) \notin unmapped_tracker),
                               map_type, fallback_id, <<>>, unmapped_tracker))

\* transform_names_to_ids: the outcome and the tracker afterwards.
transform_names_to_ids(map, text, map_type, separators, fallback_id, unmapped_tracker) ==
    LET finish(done) ==
            IF done.exc # "none"
            THEN [out |-> Raises(done.exc), tracker |-> done.tracker]
            ELSE IF done.ids = <<>>
            THEN [out |-> Returns(<<>>), tracker |-> done.tracker]
            ELSE [out |-> Returns(format_ids(done.ids)), tracker |-> done.tracker]
    IN  IF Falsy(text) \/ Strip(text) = <<>>
        THEN [out |-> Returns(<<>>), tracker |-> unmapped_tracker]
        ELSE finish(names_loop(map, SplitOn(text, separators), map_type, fallback_id,
                               <<>>, unmapped_tracker))

transform_categories_to_ids(map, categories_text, unmapped_tracker) ==
    transform_names_to_ids(map, categories_text, "categories", {"|", ","},
                           FALLBACK_ID, unmapped_tracker)

\* Line 165: `not _NAME_ID_MAP or 'tags' not in _NAME_ID_MAP or
\* not _NAME_ID_MAP['tags']`
no_tag_mappings(map) ==
    \/ map = <<>>
    \/ DOMAIN map[1] = {}
    \/ "tags" \notin DOMAIN map[1]
    \/ DOMAIN map[1]["tags"] = {}

\* A faulty variant of transform_tags_to_ids: tag names are split on ',' as
\* well as on '|', as category names are.
transform_tags_to_ids_CommaToo(map, tags_text, unmapped_tracker) ==
    IF no_tag_mappings(map)
    THEN [out |-> Returns(<<>>), tracker |-> unmapped_tracker]
    ELSE transform_names_to_ids(map, tags_text, "tags", {"|", ","},
                                FALLBACK_ID, unmapped_tracker)

transform_tags_to_ids(map, tags_text, unmapped_tracker) ==
    IF no_tag_mappings(map)
    THEN [out |-> Returns(<<>>), tracker |-> unmapped_tracker]
    ELSE transform_names_to_ids(map, tags_text, "tags", {"|"},
                                FALLBACK_ID, unmapped_tracker)

(***************************************************************************)
(* transform.py:172-202                                                    *)
(***************************************************************************)
S_2040 == <<"2","0","4","0">>

RECURSIVE first_digit_str(_)
\* Lines 196-199: the first stripped element that is all digits, None if
\* there is none.
first_digit_str(ids) ==
    IF ids = <<>> THEN None
    ELSE IF IsDigitStr(Strip(Head(ids))) THEN Strip(Head(ids))
    ELSE first_digit_str(Tail(ids))

\* A faulty variant of get_first_category_id: an empty or blank string is
\* given back empty, without the '2040' of line 189.
get_first_category_id_NoFallback(post_category_ids) ==
    IF Falsy(post_category_ids) \/ Strip(post_category_ids) = <<>>
    THEN <<>>
    ELSE LET first == first_digit_str(
                          SplitOn(RStripChar(LStripChar(post_category_ids, ","), ","), {","}))
         IN  IF first = None THEN S_2040 ELSE first

get_first_category_id(post_category_ids) ==
    IF Falsy(post_category_ids) \/ Strip(post_category_ids) = <<>>
    THEN S_2040
    ELSE LET first == first_digit_str(
                          SplitOn(RStripChar(LStripChar(post_category_ids, ","), ","), {","}))
         IN  IF first = None THEN S_2040 ELSE first

(***************************************************************************)
(* stcroix_locations.py:8-73.  LOCATION_COORDS keeps the dict's insertion  *)
(* order, which the loop of get_coordinates follows.                       *)
(***************************************************************************)
LOCATION_COORDS ==
    <<
      \* 'christiansted': ('17.7475', '-64.7011')
      [name |-> <<"c","h","r","i","s","t","i","a","n","s","t","e","d">>,
       coords |-> <<<<"1","7",".","7","4","7","5">>, <<"-","6","4",".","7","0","1","1">>>>],
      \* 'frederiksted': ('17.7128', '-64.8844')
      [name |-> <<"f","r","e","d","e","r","i","k","s","t","e","d">>,
       coords |-> <<<<"1","7",".","7","1","2","8">>, <<"-","6","4",".","8","8","4","4">>>>],
      \* 'east end': ('17.7644', '-64.5850')
      [name |-> <<"e","a","s","t"," ","e","n","d">>,
       coords |-> <<<<"1","7",".","7","6","4","4">>, <<"-","6","4",".","5","8","5","0">>>>],
      \* 'west end': ('17.7100', '-64.8900')
      [name |-> <<"w","e","s","t"," ","e","n","d">>,
       coords |-> <<<<"1","7",".","7","1","0","0">>, <<"-","6","4",".","8","9","0","0">>>>],
      \* 'north shore': ('17.7750', '-64.7500')
      [name |-> <<"n","o","r","t","h"," ","s","h","o","r","e">>,
       coords |-> <<<<"1","7",".","7","7","5","0">>, <<"-","6","4",".","7","5","0","0">>>>],
      \* 'mid island': ('17.7300', '-64.7500')
      [name |-> <<"m","i","d"," ","i","s","l","a","n","d">>,
       coords |-> <<<<"1","7",".","7","3","0","0">>, <<"-","6","4",".","7","5","0","0">>>>],
      \* 'gallows bay': ('17.7400', '-64.6900')
      [name |-> <<"g","a","l","l","o","w","s"," ","b","a","y">>,
       coords |-> <<<<"1","7",".","7","4","0","0">>, <<"-","6","4",".","6","9","0","0">>>>],
      \* 'cane bay': ('17.7717', '-64.8078')
      [name |-> <<"c","a","n","e"," ","b","a","y">>,
       coords |-> <<<<"1","7",".","7","7","1","7">>, <<"-","6","4",".","8","0","7","8">>>>],
      \* 'salt river': ('17.7800', '-64.7600')
      [name |-> <<"s","a","l","t"," ","r","i","v","e","r">>,
       coords |-> <<<<"1","7",".","7","8","0","0">>, <<"-","6","4",".","7","6","0","0">>>>],
      \* 'sandy point': ('17.6800', '-64.9000')
      [name |-> <<"s","a","n","d","y"," ","p","o","i","n","t">>,
       coords |-> <<<<"1","7",".","6","8","0","0">>, <<"-","6","4",".","9","0","0","0">>>>],
      \* '5 corners': ('17.7500', '-64.7100')
      [name |-> <<"5"," ","c","o","r","n","e","r","s">>,
       coords |-> <<<<"1","7",".","7","5","0","0">>, <<"-","6","4",".","7","1","0","0">>>>],
      \* 'buck island': ('17.7889', '-64.6222')
      [name |-> <<"b","u","c","k"," ","i","s","l","a","n","d">>,
       coords |-> <<<<"1","7",".","7","8","8","9">>, <<"-","6","4",".","6","2","2","2">>>>],
      \* 'airport': ('17.7019', '-64.7986')
      [name |-> <<"a","i","r","p","o","r","t">>,
       coords |-> <<<<"1","7",".","7","0","1","9">>, <<"-","6","4",".","7","9","8","6">>>>],
      \* 'frederiksted pier': ('17.7115', '-64.8845')
      [name |-> <<"f","r","e","d","e","r","i","k","s","t","e","d"," ","p","i","e","r">>,
       coords |-> <<<<"1","7",".","7","1","1","5">>, <<"-","6","4",".","8","8","4","5">>>>],
      \* 'the buccaneer': ('17.7569', '-64.6247')
      [name |-> <<"t","h","e"," ","b","u","c","c","a","n","e","e","r">>,
       coords |-> <<<<"1","7",".","7","5","6","9">>, <<"-","6","4",".","6","2","4","7">>>>],
      \* 'island wide': ('17.7478', '-64.7059')
      [name |-> <<"i","s","l","a","n","d"," ","w","i","d","e">>,
       coords |-> <<<<"1","7",".","7","4","7","8">>, <<"-","6","4",".","7","0","5","9">>>>],
      \* 'island-wide': ('17.7478', '-64.7059')
      [name |-> <<"i","s","l","a","n","d","-","w","i","d","e">>,
       coords |-> <<<<"1","7",".","7","4","7","8">>, <<"-","6","4",".","7","0","5","9">>>>],
      \* 'accessible by boat only': ('17.7478', '-64.7059')
      [name |-> <<"a","c","c","e","s","s","i","b","l","e"," ","b","y"," ","b","o","a","t"," ","o","n","l","y">>,
       coords |-> <<<<"1","7",".","7","4","7","8">>, <<"-","6","4",".","7","0","5","9">>>>],
      \* 'us virgin islands and stateside': ('17.7478', '-64.7059')
      [name |-> <<"u","s"," ","v","i","r","g","i","n"," ","i","s","l","a","n","d","s"," ","a","n","d"," ","s","t","a","t","e","s","i","d","e">>,
       coords |-> <<<<"1","7",".","7","4","7","8">>, <<"-","6","4",".","7","0","5","9">>>>]
    >>

\* A pair get_coordinates returns when nothing matches.
NoCoordinates == <<None, None>>

\* Lines 64-66: the entries whose name occurs in location_lower.
entries_within(location_lower) ==
    {i \in 1..Len(LOCATION_COORDS) : Contains(location_lower, LOCATION_COORDS[i].name)}

get_coordinates(location_str) ==
    IF Falsy(location_str) THEN NoCoordinates
    ELSE LET location_lower == Strip(Lower(location_str))
             direct == {i \in 1..Len(LOCATION_COORDS) :
                          LOCATION_COORDS[i].name = location_lower}
             within == entries_within(location_lower)
         IN  IF direct # {} THEN LOCATION_COORDS[SetMin(direct)].coords
             ELSE IF within # {} THEN LOCATION_COORDS[SetMin(within)].coords
             ELSE NoCoordinates

get_default_coordinates ==
    <<<<"1","7",".","7","4","7","8">>, <<"-","6","4",".","7","0","5","9">>>>

(***************************************************************************)
(* transform.py:205-221                                                    *)
(***************************************************************************)
\* re.sub(r'\D', '', phone)
OnlyDigits(s) == SelectSeq(s, LAMBDA c : c \in Digits)

S_340 == <<"3","4","0">>

\* A faulty variant of format_phone: seven digits are formatted without the
\* area code 340 of line 218.
format_phone_NoAreaCode(phone) ==
    IF Falsy(phone) THEN <<>>
    ELSE LET digits == OnlyDigits(phone)
         IN  IF Len(digits) = 10
             THEN SubSeq(digits, 1, 3) \o <<"-">> \o SubSeq(digits, 4, 6)
                      \o <<"-">> \o SubSeq(digits, 7, 10)
             ELSE IF Len(digits) = 7
             THEN SubSeq(digits, 1, 3) \o <<"-">> \o SubSeq(digits, 4, 7)
             ELSE phone

format_phone(phone) ==
    IF Falsy(phone) THEN <<>>
    ELSE LET digits == OnlyDigits(phone)
         IN  IF Len(digits) = 10
             THEN SubSeq(digits, 1, 3) \o <<"-">> \o SubSeq(digits, 4, 6)
                      \o <<"-">> \o SubSeq(digits, 7, 10)
             ELSE IF Len(digits) = 7
             THEN S_340 \o <<"-">> \o SubSeq(digits, 1, 3) \o <<"-">> \o SubSeq(digits, 4, 7)
             ELSE phone

(***************************************************************************)
(* Regular-expression pieces shared by the URL patterns.                   *)
(***************************************************************************)
\* The length of the match of `https?://` at position i of s (0: no match);
\* ci: re.IGNORECASE.
SchemeLenAt(s, i, ci) ==
    LET at(n) == IF i + n - 1 <= Len(s)
                 THEN (IF ci THEN Lower(SubSeq(s, i, i + n - 1)) ELSE SubSeq(s, i, i + n - 1))
                 ELSE <<>>
    IN  IF i > Len(s) \/ s[i] \notin {"h", "H"} THEN 0
        ELSE IF at(Len(S_https_scheme)) = S_https_scheme THEN Len(S_https_scheme)
        ELSE IF at(Len(S_http_scheme)) = S_http_scheme THEN Len(S_http_scheme)
        ELSE 0

\* The number of characters from position i of s on that are outside `stop`.
RunLen(s, i, stop) ==
    LET stops == {j \in i..Len(s) : s[j] \in stop}
    IN  IF stops = {} THEN Len(s) - i + 1 ELSE SetMin(stops) - i

\* url + '|||' for each URL, joined by '::' (lines 256-261, 458-463, 501-506)
S_gd_sep == <<":", ":">>
format_gd(urls) ==
    Join(S_gd_sep, [i \in 1..Len(urls) |-> urls[i] \o <<"|", "|", "|">>])

(***************************************************************************)
(* transform.py:223-261                                                    *)
(***************************************************************************)
\* [u.strip() for u in field.split(sep) if u.strip()]
stripped_parts(field, sep) ==
    SelectSeq([i \in 1..Len(SplitOn(field, {sep})) |-> Strip(SplitOn(field, {sep})[i])],
              LAMBDA u : u # <<>>)

GalleryUrlStop == Whitespace \cup {"\"", ",", "]"}

\* The last position of the match of `https?://[^\s",\]]+` at position i of
\* s, 0 when there is none.
gallery_url_end(s, i) ==
    LET n == SchemeLenAt(s, i, FALSE)
        run == IF n = 0 THEN 0 ELSE RunLen(s, i + n, GalleryUrlStop)
    IN  IF n > 0 /\ run > 0 THEN i + n + run - 1 ELSE 0

RECURSIVE gallery_findall(_, _)
\* re.findall(r'https?://[^\s",\]]+', s) from position i on
gallery_findall(s, i) ==
    LET starts == {p \in i..Len(s) : gallery_url_end(s, p) > 0}
    IN  IF starts = {} THEN <<>>
        ELSE LET p == SetMin(starts)
             IN  <<SubSeq(s, p, gallery_url_end(s, p))>>
                     \o gallery_findall(s, gallery_url_end(s, p) + 1)

format_images_gallery(images_field) ==
    IF Falsy(images_field) THEN <<>>
    ELSE IF Contains(images_field, <<"|">>) /\ ~Contains(images_field, S_gd_sep)
    THEN format_gd(stripped_parts(images_field, "|"))
    ELSE IF Contains(images_field, <<",">>) /\ Contains(images_field, S_http)
    THEN format_gd(stripped_parts(images_field, ","))
    ELSE IF StartsWith(images_field, <<"[">>)
    THEN format_gd(gallery_findall(images_field, 1))
    ELSE IF Contains(images_field, S_gd_sep)
    THEN images_field
    ELSE IF Strip(images_field) # <<>>
    THEN format_gd(<<Strip(images_field)>>)
    ELSE <<>>

(***************************************************************************)
(* transform.py:278-280                                                    *)
(***************************************************************************)
choose_best_value(value1, value2) == IF Falsy(value1) THEN value2 ELSE value1

(***************************************************************************)
(* transform.py:355-382                                                    *)
(***************************************************************************)
\* s[i:].startswith(p), i counted from 1
StartsWithAt(s, i, p) ==
    i >= 1 /\ i + Len(p) - 1 <= Len(s) /\ SubSeq(s, i, i + Len(p) - 1) = p

SetMax(S) == CHOOSE x \in S : \A y \in S : x >= y

S_comment_open == <<"<","!","-","-">>
S_comment_close == <<"-","-",">">>
S_wp_fl_builder == <<"w","p",":","f","l","-","b","u","i","l","d","e","r">>
S_fl_builder == <<"f","l","-","b","u","i","l","d","e","r">>
\* The text <!-- and the text -->
S_escaped_open ==
    <<"\\","u","0","0","3","c","!","\\","u","0","0","2","d","\\","u","0","0","2","d">>
S_escaped_close ==
    <<"\\","u","0","0","2","d","\\","u","0","0","2","d","\\","u","0","0","3","e">>

\* The four patterns of lines 371-377, each of the shape
\*   open \s* /? word [^stop]* close      (the '/?' only where slash is TRUE)
BB_PATTERNS ==
    <<[open |-> S_comment_open, slash |-> TRUE, word |-> S_wp_fl_builder,
       stop |-> ">", close |-> S_comment_close],
      [open |-> S_comment_open, slash |-> FALSE, word |-> S_fl_builder,
       stop |-> ">", close |-> S_comment_close],
      [open |-> S_escaped_open, slash |-> TRUE, word |-> S_wp_fl_builder,
       stop |-> "\\", close |-> S_escaped_close],
      [open |-> S_escaped_open, slash |-> FALSE, word |-> S_fl_builder,
       stop |-> "\\", close |-> S_escaped_close]>>

\* The last position of the match of pattern pat at position i of s, 0 when
\* there is none.  The greedy [^stop]* gives back characters until `close`
\* matches, so `close` starts at the last place of the run where it fits.
bb_match_end(s, i, pat) ==
    IF ~StartsWithAt(s, i, pat.open) THEN 0
    ELSE LET j == i + Len(pat.open)
             nonblank == {k \in j..Len(s) : s[k] \notin Whitespace}
             w == IF nonblank = {} THEN Len(s) + 1 ELSE SetMin(nonblank)
             a == IF pat.slash /\ StartsWithAt(s, w, <<"/">>) THEN w + 1 ELSE w
         IN  IF ~StartsWithAt(s, a, pat.word) THEN 0
             ELSE LET q == a + Len(pat.word)
                      run == RunLen(s, q, {pat.stop})
                      fits == {p \in q..(q + run) : StartsWithAt(s, p, pat.close)}
                  IN  IF fits = {} THEN 0 ELSE SetMax(fits) + Len(pat.close) - 1

RECURSIVE bb_sub(_, _, _)
\* re.sub(pattern, '', s) from position i on
bb_sub(s, i, pat) ==
    LET starts == {p \in i..Len(s) : bb_match_end(s, p, pat) > 0}
    IN  IF starts = {} THEN DropFirst(s, i - 1)
        ELSE LET p == SetMin(starts)
             IN  SubSeq(s, i, p - 1) \o bb_sub(s, bb_match_end(s, p, pat) + 1, pat)

\* The last position of the match of `\n\s*\n\s*\n` at position i of s, 0
\* when there is none: a match starts at a newline whose whitespace run holds
\* three newlines or more, and ends at the last newline of the run.
blank_lines_end(s, i) ==
    LET stops == {k \in i..Len(s) : s[k] \notin Whitespace}
        last == IF stops = {} THEN Len(s) ELSE SetMin(stops) - 1
        newlines == {k \in i..last : s[k] = "\n"}
    IN  IF s[i] = "\n" /\ Cardinality(newlines) >= 3 THEN SetMax(newlines) ELSE 0

RECURSIVE blank_lines_sub(_, _)
\* re.sub(r'\n\s*\n\s*\n', '\n\n', s) from position i on
blank_lines_sub(s, i) ==
    LET starts == {p \in i..Len(s) : blank_lines_end(s, p) > 0}
    IN  IF starts = {} THEN DropFirst(s, i - 1)
        ELSE LET p == SetMin(starts)
             IN  SubSeq(s, i, p - 1) \o <<"\n", "\n">>
                     \o blank_lines_sub(s, blank_lines_end(s, p) + 1)

filter_beaver_builder_tags(content) ==
    IF Falsy(content) THEN <<>>
    ELSE LET c1 == bb_sub(content, 1, BB_PATTERNS[1])
             c2 == bb_sub(c1, 1, BB_PATTERNS[2])
             c3 == bb_sub(c2, 1, BB_PATTERNS[3])
             c4 == bb_sub(c3, 1, BB_PATTERNS[4])
         IN  Strip(blank_lines_sub(c4, 1))

(***************************************************************************)
(* transform.py:385-463                                                    *)
(***************************************************************************)
S_jpg == <<".","j","p","g">>
S_jpeg == <<".","j","p","e","g">>

JpgUrlStop == Whitespace \cup {"\"", "'", "<", ">"}

\* The length of the match of `\.jpe?g` (re.IGNORECASE) at position p of s
\* that ends at or before position last, 0 when there is none.
JpgExtLenAt(s, p, last) ==
    IF p + Len(S_jpeg) - 1 <= last /\ Lower(SubSeq(s, p, p + Len(S_jpeg) - 1)) = S_jpeg
    THEN Len(S_jpeg)
    ELSE IF p + Len(S_jpg) - 1 <= last /\ Lower(SubSeq(s, p, p + Len(S_jpg) - 1)) = S_jpg
    THEN Len(S_jpg)
    ELSE 0

\* The last position of the match of `https?://[^\s"'<>]+\.jpe?g` at
\* position i of s, 0 when there is none: the greedy class takes the longest
\* stretch after which the extension still fits.
jpg_url_end(s, i) ==
    LET longest(ks, last) ==
            IF ks = {} THEN 0 ELSE SetMax(ks) + JpgExtLenAt(s, SetMax(ks), last) - 1
        within(first, last) ==
            longest({p \in (first + 1)..last : JpgExtLenAt(s, p, last) > 0}, last)
        from(first) == within(first, first + RunLen(s, first, JpgUrlStop) - 1)
        after(n) == IF n = 0 THEN 0 ELSE from(i + n)
    IN  after(SchemeLenAt(s, i, TRUE))

RECURSIVE jpg_findall(_, _)
\* re.findall(jpg_pattern, s, re.IGNORECASE) from position i on.  The
\* optional `src=`, `href=` and quotes of the pattern lie outside the group:
\* they move where a match starts and ends, never which URLs are captured.
jpg_findall(s, i) ==
    LET match(p, e) ==
            <<SubSeq(s, p, e)>>
                \o jpg_findall(s, IF e < Len(s) /\ s[e + 1] \in {"\"", "'"} THEN e + 2 ELSE e + 1)
        at(p) == match(p, jpg_url_end(s, p))
        first(starts) == IF starts = {} THEN <<>> ELSE at(SetMin(starts))
    IN  first({p \in i..Len(s) : jpg_url_end(s, p) > 0})

RECURSIVE StrToNat(_)
\* int(s) for a string of digits
StrToNat(s) ==
    IF s = <<>> THEN 0
    ELSE StrToNat(SubSeq(s, 1, Len(s) - 1)) * 10 + (Ord[s[Len(s)]] - Ord["0"])

\* The number of digits that end at position e of s.
DigitsBefore(s, e) ==
    LET stops == {k \in 1..e : s[k] \notin Digits}
    IN  IF stops = {} THEN e ELSE e - SetMax(stops)

NO_WIDTH == 0 - 1

\* Lines 416-429: resolution_pattern `-(\d+)x(\d+)(\.jpe?g)$` on one URL: its
\* width (NO_WIDTH without a suffix) and its base URL.
split_resolution(url) ==
    LET l == Lower(url)
        ends(ext) == Len(url) >= Len(ext) /\ SubSeq(l, Len(l) - Len(ext) + 1, Len(l)) = ext
        none == [url |-> url, width |-> NO_WIDTH, base |-> url]
        \* the '-' at dash, the width, the 'x' at xPos, the height up to hEnd
        split(dash, xPos, hEnd) ==
            IF dash >= 1 /\ dash < xPos - 1 /\ url[dash] = "-"
            THEN [url |-> url,
                  width |-> StrToNat(SubSeq(url, dash + 1, xPos - 1)),
                  base |-> SubSeq(url, 1, dash - 1) \o SubSeq(url, hEnd + 1, Len(url))]
            ELSE none
        width(xPos, hEnd) ==
            IF xPos >= 1 /\ xPos < hEnd /\ l[xPos] = "x"
            THEN split(xPos - DigitsBefore(url, xPos - 1) - 1, xPos, hEnd)
            ELSE none
        height(hEnd) == width(hEnd - DigitsBefore(url, hEnd), hEnd)
    IN  IF ends(S_jpeg) THEN height(Len(url) - Len(S_jpeg))
        ELSE IF ends(S_jpg) THEN height(Len(url) - Len(S_jpg))
        ELSE none

RECURSIVE group_by_base(_, _)
\* Lines 412-429: url_groups, a dict in insertion order, as a sequence of
\* [base, variants] from the variants still to add and the groups so far.
group_by_base(variants, groups) ==
    IF variants = <<>> THEN groups
    ELSE LET v == Head(variants)
             at == {g \in 1..Len(groups) : groups[g].base = v.base}
         IN  group_by_base(
                 Tail(variants),
                 IF at = {}
                 THEN Append(groups, [base |-> v.base, variants |-> <<v>>])
                 ELSE [groups EXCEPT ![SetMin(at)].variants = Append(@, v)])

MASTER_WIDTH == 1440

\* A faulty variant of master_of: the widest variant is taken, without the
\* preference for width 1440 of line 443.
master_of_Widest(variants) ==
    LET n == Len(variants)
        plain == {i \in 1..n : variants[i].width = NO_WIDTH}
        widest == {i \in 1..n : \A j \in 1..n : variants[j].width <= variants[i].width}
    IN  IF plain # {} THEN variants[SetMin(plain)].url
        ELSE variants[SetMin(widest)].url

\* Lines 434-445: the master of one group.  sorted() is stable, so among
\* equal keys (w != 1440, -w) the first variant stays first.
master_of(variants) ==
    LET n == Len(variants)
        plain == {i \in 1..n : variants[i].width = NO_WIDTH}
        preferred == {i \in 1..n : variants[i].width = MASTER_WIDTH}
        widest == {i \in 1..n : \A j \in 1..n : variants[j].width <= variants[i].width}
    IN  IF plain # {} THEN variants[SetMin(plain)].url
        ELSE IF preferred # {} THEN variants[SetMin(preferred)].url
        ELSE variants[SetMin(widest)].url

\* Lines 449-456: the first of the URLs that are equal ignoring case.
unique_ignoring_case(urls) ==
    LET firsts == {i \in 1..Len(urls) : \A j \in 1..(i - 1) : Lower(urls[j]) # Lower(urls[i])}
        keep[i \in 0..Len(urls)] ==
            IF i = 0 THEN <<>>
            ELSE IF i \in firsts THEN Append(keep[i - 1], urls[i]) ELSE keep[i - 1]
    IN  keep[Len(urls)]

extract_jpg_urls_from_content(content) ==
    LET masters(groups) == [g \in 1..Len(groups) |-> master_of(groups[g].variants)]
        grouped(matches) ==
            IF matches = <<>> THEN <<>>
            ELSE format_gd(unique_ignoring_case(masters(
                     group_by_base([i \in 1..Len(matches) |-> split_resolution(matches[i])],
                                   <<>>))))
    IN  IF Falsy(content) THEN <<>> ELSE grouped(jpg_findall(content, 1))

(***************************************************************************)
(* transform.py:466-506                                                    *)
(***************************************************************************)
S_slashes == <<"/","/">>
S_www == <<"w","w","w",".">>
S_youtube_embed == <<"y","o","u","t","u","b","e",".","c","o","m","/","e","m","b","e","d","/">>
S_youtube_watch == <<"y","o","u","t","u","b","e",".","c","o","m","/","w","a","t","c","h","?","v","=">>
S_youtu_be == <<"y","o","u","t","u",".","b","e","/">>
S_embed_url ==
    <<"h","t","t","p","s",":","/","/","w","w","w",".","y","o","u","t","u","b","e",".","c","o","m","/","e","m","b","e","d","/">>

\* The three patterns of lines 484-488, each of the shape
\*   (?:https?:)? // (?:www\.)? host ([a-zA-Z0-9_-]+)
\* (the 'www.' only where www is TRUE).
YOUTUBE_PATTERNS ==
    <<[www |-> TRUE, host |-> S_youtube_embed],
      [www |-> TRUE, host |-> S_youtube_watch],
      [www |-> FALSE, host |-> S_youtu_be]>>

VideoIdChars == UpperLetters \cup LowerLetters \cup Digits \cup {"_", "-"}

\* Where the video ID of a match whose '//' is at position i of s starts and
\* ends (<<0, 0>>: no match), with re.IGNORECASE.
youtube_id_at(s, i, pat) ==
    LET lowered(a, p) == a + Len(p) - 1 <= Len(s) /\ Lower(SubSeq(s, a, a + Len(p) - 1)) = p
        h == IF pat.www /\ lowered(i + Len(S_slashes), S_www)
             THEN i + Len(S_slashes) + Len(S_www)
             ELSE i + Len(S_slashes)
        first == h + Len(pat.host)
        stops == {k \in first..Len(s) : s[k] \notin VideoIdChars}
        last == IF stops = {} THEN Len(s) ELSE SetMin(stops) - 1
    IN  IF StartsWithAt(s, i, S_slashes) /\ lowered(h, pat.host) /\ last >= first
        THEN <<first, last>>
        ELSE <<0, 0>>

RECURSIVE youtube_findall(_, _, _)
\* re.findall(pattern, s, re.IGNORECASE) from position i on.  The optional
\* `https?:` lies outside the group and before the '//': it moves where a
\* match starts, never which IDs are captured.
youtube_findall(s, i, pat) ==
    LET match(m) == {SubSeq(s, m[1], m[2])} \cup youtube_findall(s, m[2] + 1, pat)
        first(starts) ==
            IF starts = {} THEN {} ELSE match(youtube_id_at(s, SetMin(starts), pat))
    IN  first({p \in i..Len(s) : youtube_id_at(s, p, pat)[1] > 0})

\* a < b for Python strings: the first difference decides, by code point
StrLess(a, b) ==
    \E i \in 1..(Len(b)) :
        /\ i <= Len(a) + 1
        /\ SubSeq(a, 1, i - 1) = SubSeq(b, 1, i - 1)
        /\ \/ i = Len(a) + 1
           \/ (i <= Len(a) /\ Ord[a[i]] < Ord[b[i]])

RECURSIVE Sorted(_)
\* sorted(S) for a set of strings
Sorted(S) ==
    IF S = {} THEN <<>>
    ELSE LET least == CHOOSE a \in S : \A b \in S \ {a} : StrLess(a, b)
         IN  <<least>> \o Sorted(S \ {least})

\* A faulty variant of extract_youtube_urls_from_content: only the first
\* pattern (youtube.com/embed/) of lines 484-488 is searched.
extract_youtube_urls_from_content_EmbedOnly(content) ==
    IF Falsy(content) THEN <<>>
    ELSE LET video_ids == youtube_findall(content, 1, YOUTUBE_PATTERNS[1])
             ids == Sorted(video_ids)
         IN  IF video_ids = {} THEN <<>>
             ELSE format_gd([i \in 1..Len(ids) |-> S_embed_url \o ids[i]])

extract_youtube_urls_from_content(content) ==
    IF Falsy(content) THEN <<>>
    ELSE LET video_ids == UNION {youtube_findall(content, 1, YOUTUBE_PATTERNS[p]) :
                                   p \in 1..Len(YOUTUBE_PATTERNS)}
             ids == Sorted(video_ids)
         IN  IF video_ids = {} THEN <<>>
             ELSE format_gd([i \in 1..Len(ids) |-> S_embed_url \o ids[i]])

(***************************************************************************)
(* transform.py:509-519.  The cache file address_cache.json is absent,     *)
(* unreadable (json.load raises), or holds a JSON value: an object (a      *)
(* function from names to addresses) or something else, such as a list.    *)
(***************************************************************************)
CacheAbsent == [kind |-> "absent", data |-> <<>>]
CacheUnreadable == [kind |-> "unreadable", data |-> <<>>]
CacheObject(d) == [kind |-> "object", data |-> d]
CacheList == [kind |-> "list", data |-> <<>>]

\* What load_address_cache returns: [kind |-> "object"] with the dict, or
\* [kind |-> "list"] for a file that holds one.
load_address_cache(cache_file) ==
    IF cache_file.kind = "absent" THEN CacheObject(<<>>)
    ELSE IF cache_file.kind = "unreadable" THEN CacheObject(<<>>)
    ELSE cache_file

(***************************************************************************)
(* transform.py:521-844: transform_csv.                                    *)
(*                                                                         *)
(* A row of csv.DictReader is a function from the header's column names to *)
(* str, or to None where the line is shorter than the header.              *)
(***************************************************************************)
\* A faulty variant of fieldnames: 'youtube_url' is left out of the list.
fieldnames_NoYoutubeUrl ==
    <<"ID", "post_title", "post_content", "post_status", "post_author",
      "post_type", "post_date", "post_modified", "post_tags", "post_category",
      "default_category", "featured", "street", "street2", "city", "region",
      "country", "zip", "latitude", "longitude", "location", "phone",
      "website", "website_url", "email_", "fixed_image", "spotlight_link",
      "featured_image_alignment", "layout", "facebook", "twitter",
      "instagram", "pinterest", "youtube", "linkedin", "trip_advisor",
      "yelp", "other_social_label", "other_social_url", "other_social_icon",
      "enable_post_tabs", "tab_1_description", "youtube_urls", "post_images">>

\* Lines 606-616.
fieldnames ==
    <<"ID", "post_title", "post_content", "post_status", "post_author",
      "post_type", "post_date", "post_modified", "post_tags", "post_category",
      "default_category", "featured", "street", "street2", "city", "region",
      "country", "zip", "latitude", "longitude", "location", "phone",
      "website", "website_url", "email_", "fixed_image", "spotlight_link",
      "featured_image_alignment", "layout", "facebook", "twitter",
      "instagram", "pinterest", "youtube", "linkedin", "trip_advisor",
      "yelp", "other_social_label", "other_social_url", "other_social_icon",
      "enable_post_tabs", "tab_1_description", "youtube_url", "youtube_urls",
      "post_images">>

S_default_street == <<"1","2","3"," ","K","i","n","g"," ","S","t","r","e","e","t">>
S_post_type == <<"g","d","_","l","i","s","t","i","n","g","_","n","e","w">>
S_city == <<"S","t","."," ","C","r","o","i","x">>
S_region == <<"V","I">>
S_country == <<"U","n","i","t","e","d"," ","S","t","a","t","e","s">>
S_publish == <<"p","u","b","l","i","s","h">>
S_center_lat == <<"1","7",".","7","4","7","8">>
S_center_lng == <<"-","6","4",".","7","0","5","9">>

\* dict.get(key, default)
Get(row, key, default) == IF key \in DOMAIN row THEN row[key] ELSE default

\* Lines 552-559: [c.strip() for c in filter.split(',')], [] without a filter
filter_list(filter) ==
    IF Falsy(filter) THEN <<>>
    ELSE [i \in 1..Len(SplitOn(filter, {","})) |-> Strip(SplitOn(filter, {","})[i])]

\* Lines 574-576.
use_fixed_coords(opts) ==
    ~Falsy(opts.default_lat) \/ ~Falsy(opts.default_lng) \/ opts.skip_geocoding

\* A faulty variant of fixed_lat: --skip-geocoding wins over --lat.
fixed_lat_CentreFirst(opts) ==
    IF opts.skip_geocoding THEN S_center_lat
    ELSE IF ~Falsy(opts.default_lat) THEN opts.default_lat ELSE <<>>

fixed_lat(opts) ==
    IF ~Falsy(opts.default_lat) THEN opts.default_lat
    ELSE IF opts.skip_geocoding THEN S_center_lat ELSE <<>>

fixed_lng(opts) ==
    IF ~Falsy(opts.default_lng) THEN opts.default_lng
    ELSE IF opts.skip_geocoding THEN S_center_lng ELSE <<>>

\* A faulty variant of input_file_exists: the test of line 542 is missing.
input_file_exists_Always(file) == TRUE

\* Line 542: input_path.exists()
input_file_exists(file) == file.exists

\* Line 579.
use_stdout(opts) == opts.output_file = None \/ opts.output_file = <<"-">>

\* Lines 645-675: one filter on one field.  "raise": the field is None and
\* has no lower(); "pass": no filter, or one of its values is in the field;
\* "skip": the row is left out.
apply_filter(list, row, column) ==
    IF list = <<>> THEN "pass"
    ELSE IF Get(row, column, <<>>) = None THEN "raise"
    ELSE IF \E i \in 1..Len(list) : Contains(Lower(Get(row, column, <<>>)), Lower(list[i]))
    THEN "pass"
    ELSE "skip"

\* A faulty variant of apply_filters: only the category filter is applied.
apply_filters_CategoryOnly(opts, row) ==
    apply_filter(filter_list(opts.category_filter), row, "Categories")

\* Lines 644-675: the three filters in their order.
apply_filters(opts, row) ==
    LET c == apply_filter(filter_list(opts.category_filter), row, "Categories")
        t == apply_filter(filter_list(opts.tags_filter), row, "Tags")
        l == apply_filter(filter_list(opts.layouts_filter), row, "acf_template_layout")
    IN  IF c # "pass" THEN c ELSE IF t # "pass" THEN t ELSE l

\* A faulty variant of row_coordinates: the default of lines 715-717 is
\* not taken.
row_coordinates_NoDefault(opts, row) ==
    LET looked_up(found) == [exc |-> "none", lat |-> found[1], lng |-> found[2]]
    IN  IF use_fixed_coords(opts)
        THEN [exc |-> "none", lat |-> fixed_lat(opts), lng |-> fixed_lng(opts)]
        ELSE IF Get(row, "acf_location", <<>>) = None
        THEN [exc |-> "AttributeError", lat |-> <<>>, lng |-> <<>>]
        ELSE looked_up(get_coordinates(Strip(Get(row, "acf_location", <<>>))))

\* Lines 705-717: the coordinates of a row; "raise" when acf_location is None.
row_coordinates(opts, row) ==
    LET looked_up(found) ==
            IF Falsy(found[1]) \/ Falsy(found[2])
            THEN [exc |-> "none", lat |-> get_default_coordinates[1],
                  lng |-> get_default_coordinates[2]]
            ELSE [exc |-> "none", lat |-> found[1], lng |-> found[2]]
    IN  IF use_fixed_coords(opts)
        THEN [exc |-> "none", lat |-> fixed_lat(opts), lng |-> fixed_lng(opts)]
        ELSE IF Get(row, "acf_location", <<>>) = None
        THEN [exc |-> "AttributeError", lat |-> <<>>, lng |-> <<>>]
        ELSE looked_up(get_coordinates(Strip(Get(row, "acf_location", <<>>))))

\* A faulty variant of row_street: the Title is not trimmed before it is
\* looked up.
row_street_RawTitle(opts, cache, row) ==
    IF Get(row, "Title", <<>>) = None \/ cache.kind # "object"
    THEN [exc |-> "AttributeError", street |-> <<>>]
    ELSE LET street_address == Get(cache.data, Get(row, "Title", <<>>), <<>>)
         IN  [exc |-> "none",
              street |-> IF opts.enable_default_address /\ Falsy(street_address)
                         THEN S_default_street
                         ELSE street_address]

\* Lines 719-725: the street of a row; "raise" when Title is None or the
\* cache is not a dict.
row_street(opts, cache, row) ==
    IF Get(row, "Title", <<>>) = None \/ cache.kind # "object"
    THEN [exc |-> "AttributeError", street |-> <<>>]
    ELSE LET business_name == Strip(Get(row, "Title", <<>>))
             street_address == Get(cache.data, business_name, <<>>)
         IN  [exc |-> "none",
              street |-> IF opts.enable_default_address /\ Falsy(street_address)
                         THEN S_default_street
                         ELSE street_address]

\* Lines 727-745: post_content, youtube_urls, post_images.
row_content(opts, row) ==
    IF opts.filter_bb
    THEN filter_beaver_builder_tags(Get(row, "Content", <<>>))
    ELSE Get(row, "Content", <<>>)

combined_images(gallery_images, jpg_urls_from_content) ==
    IF gallery_images # <<>> /\ jpg_urls_from_content # <<>>
    THEN gallery_images \o S_gd_sep \o jpg_urls_from_content
    ELSE IF jpg_urls_from_content # <<>> THEN jpg_urls_from_content
    ELSE gallery_images

\* Lines 677-694 and 747-808: the dict output_row, from the row, the ID
\* strings [tags, category, default] and what was worked out before.
build_output_row(row, ids, coords, street, content) ==
    LET website == clean_url(choose_best_value(Get(row, "acf_website", <<>>),
                                               Get(row, "website_url", <<>>)))
        gallery == choose_best_value(Get(row, "images", <<>>), Get(row, "slider", <<>>))
    IN  [ID |-> Get(row, "id", <<>>),
         post_title |-> Get(row, "Title", <<>>),
         post_content |-> content,
         post_status |-> Get(row, "Status", S_publish),
         post_author |-> Get(row, "Author ID", <<"1">>),
         post_type |-> S_post_type,
         post_date |-> Get(row, "Date", <<>>),
         post_modified |-> Get(row, "Post Modified Date", <<>>),
         post_tags |-> ids.tags,
         post_category |-> ids.category,
         default_category |-> ids.default,
         featured |-> <<"0">>,
         street |-> street,
         street2 |-> <<>>,
         city |-> S_city,
         region |-> S_region,
         country |-> S_country,
         zip |-> <<>>,
         latitude |-> coords.lat,
         longitude |-> coords.lng,
         location |-> Get(row, "acf_location", <<>>),
         phone |-> format_phone(Get(row, "acf_phone", <<>>)),
         website |-> website,
         website_url |-> website,
         email_ |-> Get(row, "acf_email", <<>>),
         fixed_image |-> clean_url(Get(row, "acf_fixed_image", <<>>)),
         spotlight_link |-> clean_url(Get(row, "acf_spotlight_link", <<>>)),
         featured_image_alignment |-> Get(row, "image_alignment", <<>>),
         layout |-> Get(row, "acf_template_layout", <<>>),
         facebook |-> transform_social_url("facebook", Get(row, "acf_facebook", <<>>)),
         twitter |-> transform_social_url("twitter", Get(row, "acf_twitter", <<>>)),
         instagram |-> transform_social_url("instagram", Get(row, "acf_instagram", <<>>)),
         pinterest |-> transform_social_url("pinterest", Get(row, "acf_pinterest", <<>>)),
         youtube |-> transform_social_url("youtube", Get(row, "acf_you_tube", <<>>)),
         linkedin |-> transform_social_url("linkedin", Get(row, "acf_linked_in", <<>>)),
         trip_advisor |-> transform_social_url("trip_advisor", Get(row, "acf_trip_advisor", <<>>)),
         yelp |-> transform_social_url("yelp", Get(row, "acf_yelp", <<>>)),
         other_social_label |-> Get(row, "acf_other_social_label", <<>>),
         other_social_url |-> clean_url(Get(row, "acf_other_social_url", <<>>)),
         other_social_icon |-> Get(row, "acf_other_social_icon", <<>>),
         enable_post_tabs |-> IF Falsy(Get(row, "acf_tabs_filter", None))
                              THEN <<"0">> ELSE <<"1">>,
         tab_1_description |-> Get(row, "acf_tab_1_name", <<>>),
         youtube_url |-> <<>>,
         youtube_urls |-> extract_youtube_urls_from_content(content),
         post_images |-> combined_images(format_images_gallery(gallery),
                                         extract_jpg_urls_from_content(content))]

\* csv.DictWriter.writerow (line 810): the values in the order of
\* fieldnames, '' for a missing key and for None; a key that is no field
\* name raises ValueError.
writerow(output_row) ==
    IF ~(DOMAIN output_row \subseteq {fieldnames[i] : i \in 1..Len(fieldnames)})
    THEN [exc |-> "ValueError", line |-> <<>>]
    ELSE [exc |-> "none",
          line |-> [i \in 1..Len(fieldnames) |->
                      IF fieldnames[i] \notin DOMAIN output_row THEN <<>>
                      ELSE IF output_row[fieldnames[i]] = None THEN <<>>
                      ELSE output_row[fieldnames[i]]]]

\* Lines 644-810: the body of the loop for one row, after the test-mode
\* check.  kind is "skip" (a filter rejects the row), "write" (line is the
\* line written) or "raise" (an exception leaves transform_csv); the two
\* trackers are returned as the body leaves them.
process_row(map, opts, cache, row, tracked_categories, tracked_tags) ==
    LET stop(kind, c, t) ==
            [kind |-> kind, line |-> <<>>, unmapped_categories |-> c, unmapped_tags |-> t]
        emit(written, c, t) ==
            IF written.exc # "none" THEN stop("raise", c, t)
            ELSE [kind |-> "write", line |-> written.line,
                  unmapped_categories |-> c, unmapped_tags |-> t]
        transformed(cats, tags, coords, street) ==
            IF cats.out.exc # "none" THEN stop("raise", cats.tracker, tracked_tags)
            ELSE IF tags.out.exc # "none" THEN stop("raise", cats.tracker, tags.tracker)
            ELSE IF coords.exc # "none" \/ street.exc # "none"
            THEN stop("raise", cats.tracker, tags.tracker)
            ELSE emit(writerow(build_output_row(
                                   row,
                                   [category |-> cats.out.value,
                                    tags |-> tags.out.value,
                                    default |-> get_first_category_id(cats.out.value)],
                                   coords, street.street, row_content(opts, row))),
                      cats.tracker, tags.tracker)
        filtered(passed) ==
            IF passed = "raise" THEN stop("raise", tracked_categories, tracked_tags)
            ELSE IF passed = "skip" THEN stop("skip", tracked_categories, tracked_tags)
            ELSE transformed(
                     transform_categories_to_ids(map, Get(row, "Categories", <<>>),
                                                 tracked_categories),
                     transform_tags_to_ids(map, Get(row, "Tags", <<>>), tracked_tags),
                     row_coordinates(opts, row),
                     row_street(opts, cache, row))
    IN  filtered(apply_filters(opts, row))

(***************************************************************************)
(* The runs of the program.  A run is fixed by the mapping files and the   *)
(* address cache on disk, the command line (the keyword arguments main()   *)
(* hands to transform_csv), the input file, and whether the output path    *)
(* already holds a file.                                                   *)
(***************************************************************************)
\* The header of an ACF export, in the order of its columns.
AcfColumns ==
    <<"id", "Title", "Content", "Status", "Author ID", "Date",
      "Post Modified Date", "Categories", "Tags", "acf_template_layout",
      "acf_location", "acf_phone", "acf_website", "website_url", "acf_email",
      "acf_fixed_image", "acf_spotlight_link", "image_alignment",
      "acf_facebook", "acf_twitter", "acf_instagram", "acf_pinterest",
      "acf_you_tube", "acf_linked_in", "acf_trip_advisor", "acf_yelp",
      "acf_other_social_label", "acf_other_social_url",
      "acf_other_social_icon", "acf_tabs_filter", "acf_tab_1_name", "images",
      "slider">>

\* A line of the export that gives the listed columns and leaves the others
\* empty.
RowOf(header, given) ==
    [c \in {header[i] : i \in 1..Len(header)} |->
        IF c \in DOMAIN given THEN given[c] ELSE <<>>]

\* A line that ends after its n-th column: csv.DictReader gives None for
\* the columns that are missing.
CutAfter(header, row, n) ==
    [c \in DOMAIN row |->
        IF \E i \in 1..n : header[i] = c THEN row[c] ELSE None]

S_Cafe == <<"C","a","f","e">>
S_Zed == <<"Z","e","d">>
S_out_csv == <<"o","u","t",".","c","s","v">>

RowCafe ==
    RowOf(AcfColumns,
        ("id" :> <<"7">>)
        @@ ("Title" :> <<" ","C","a","f","e"," ">>)
        @@ ("Content" :> <<"<","!","-","-"," ","w","p",":","f","l","-","b","u","i","l","d","e","r"," ","-","-",">","<","i","m","g"," ","s","r","c","=","\"","h","t","t","p",":","/","/","x","/","a","-","1","0","x","5",".","j","p","g","\"",">"," ","/","/","y","o","u","t","u",".","b","e","/","v","1">>)
        @@ ("Status" :> <<"d","r","a","f","t">>)
        @@ ("Categories" :> <<"E","a","t",",","Z","o","o">>)
        @@ ("Tags" :> <<"B","e","a","c","h","|","Z","e","d">>)
        @@ ("acf_template_layout" :> <<"W","i","d","e">>)
        @@ ("acf_location" :> <<"C","h","r","i","s","t","i","a","n","s","t","e","d">>)
        @@ ("acf_phone" :> <<"5","5","5","-","1","2","3","4">>)
        @@ ("acf_website" :> <<"c","a","f","e",".","v","i">>)
        @@ ("website_url" :> <<"h","t","t","p",":","/","/","o","l","d",".","v","i">>)
        @@ ("acf_facebook" :> <<"@","c","a","f","e","/">>)
        @@ ("acf_linked_in" :> <<"c","o","m","p","a","n","y","/","c","a","f","e">>)
        @@ ("acf_tabs_filter" :> <<"1">>)
        @@ ("images" :> <<"a",".","j","p","g","|","b",".","j","p","g">>))

RowDive ==
    RowOf(AcfColumns,
        ("id" :> <<"8">>)
        @@ ("Title" :> <<"D","i","v","e">>)
        @@ ("Categories" :> <<"p","l","a","y","|","z","o","o","|","Z","o","o">>)
        @@ ("Tags" :> S_Zed)
        @@ ("acf_location" :> <<"T","h","e"," ","P","i","e","r">>)
        @@ ("website_url" :> <<"h","t","t","p","s",":","/","/","d","i","v","e",".","v","i">>)
        @@ ("acf_you_tube" :> <<"d","i","v","e">>))

RowBlank == RowOf(AcfColumns, <<>>)

\* A line that ends after 'Tags'.
RowShort ==
    CutAfter(AcfColumns,
             RowOf(AcfColumns,
                   ("Title" :> <<"S","h","o","r","t">>)
                   @@ ("Categories" :> <<"E","a","t">>)),
             9)

\* A line of an export that has two columns only.
LeanColumns == <<"Title", "Categories">>

RowLean ==
    RowOf(LeanColumns,
        ("Title" :> <<"B","a","r">>)
        @@ ("Categories" :> <<"B","B","Q",","," ","b","b","q">>))

FullRows == {RowCafe, RowDive, RowBlank, RowShort}
LeanRows == {RowLean}
LongRows == {RowCafe, RowDive}

\* Files of at most MaxRows lines mix all the lines above; the longer files,
\* of TEST_LIMIT + 1 to MaxLongRows lines, are there for test mode.
MaxRows == 2
MaxLongRows == 6

RowSeqs(rows, lo, hi) == UNION {[1..n -> rows] : n \in lo..hi}

InputAbsent == [exists |-> FALSE, rows |-> <<>>]
InputFile(rows) == [exists |-> TRUE, rows |-> rows]

ShortInputs ==
    {InputAbsent}
        \cup {InputFile(r) : r \in RowSeqs(FullRows, 0, MaxRows)}
        \cup {InputFile(r) : r \in RowSeqs(LeanRows, 1, MaxRows)}

\* Line 641.
TEST_LIMIT == 5

LongInputs == {InputFile(r) : r \in RowSeqs(LongRows, TEST_LIMIT + 1, MaxLongRows)}

\* main() with `--out out.csv` and no other option.
DefaultOpts ==
    [output_file |-> S_out_csv, test_mode |-> FALSE, category_filter |-> None,
     tags_filter |-> None, layouts_filter |-> None, default_lat |-> None,
     default_lng |-> None, skip_geocoding |-> FALSE,
     use_address_cache |-> FALSE, filter_bb |-> FALSE,
     enable_default_address |-> FALSE]

CoordOpts ==
    {[DefaultOpts EXCEPT !.default_lat = a, !.default_lng = b, !.skip_geocoding = k] :
        a \in {None, <<"1","8",".","1">>},
        b \in {None, <<"-","6","4",".","5">>},
        k \in BOOLEAN}

FilterOpts ==
    {[DefaultOpts EXCEPT !.category_filter = c, !.tags_filter = t, !.layouts_filter = l] :
        c \in {None, <<"e","a","t">>, <<"z","z","z",","," ","P","L","A","Y">>},
        t \in {None, <<"b","e","a","c","h">>},
        l \in {None, <<"w","i","d","e">>}}

AddressOpts ==
    {[DefaultOpts EXCEPT !.use_address_cache = u, !.enable_default_address = d] :
        u \in BOOLEAN, d \in BOOLEAN}

OutputOpts ==
    {[DefaultOpts EXCEPT !.output_file = o, !.filter_bb = f] :
        o \in {None, <<"-">>, S_out_csv}, f \in BOOLEAN}

TestOpts ==
    {[DefaultOpts EXCEPT !.test_mode = TRUE, !.category_filter = c] :
        c \in {None, <<"e","a","t">>}}

CacheFiles ==
    {CacheAbsent, CacheUnreadable, CacheList,
     CacheObject(S_Cafe :> <<"1"," ","M","a","i","n"," ","S","t">>)}

\* What the working directory holds at MAPPING_PATH, if anything.
NoMappingFile == <<>>
MappingFileHolding(json) == (MAPPING_PATH :> json)

Mappings ==
    {NoMappingFile, MappingFileHolding(JsonNull),
     MappingFileHolding(JsonObject(<<>>)),
     MappingFileHolding(JsonObject(Map_Full)),
     MappingFileHolding(JsonObject(Map_NoTags)),
     MappingFileHolding(JsonObject(Map_CategoriesOnly))}

Run(m, o, c, i, f) ==
    [mapping_files |-> m, opts |-> o, cache_file |-> c, input |-> i, out_file |-> f]

Runs ==
    {Run(MappingFileHolding(JsonObject(Map_Full)), o, CacheAbsent, i, "absent") :
        o \in CoordOpts \cup FilterOpts \cup OutputOpts \cup TestOpts,
        i \in ShortInputs}
    \cup {Run(MappingFileHolding(JsonObject(Map_Full)), o, c, i, "absent") :
        o \in AddressOpts, c \in CacheFiles, i \in ShortInputs}
    \cup {Run(m, o, CacheAbsent, i, f) :
        m \in Mappings, o \in {DefaultOpts, [DefaultOpts EXCEPT !.output_file = None]},
        i \in ShortInputs, f \in {"absent", "old"}}
    \cup {Run(MappingFileHolding(JsonObject(m)), o, CacheAbsent, i, "absent") :
        m \in {Map_Full, Map_NoTags}, o \in TestOpts, i \in LongInputs}

\* A pure function is applied by one call: `call` holds the function's name
\* and arguments, `ret` its result once it has returned.
NoCall == [fn |-> "none"]
NoRet == [done |-> FALSE]

(***************************************************************************)
(* The program as a state machine: main() (transform.py:1027-1155) loads   *)
(* the mapping and calls transform_csv (521-844), which checks the input,  *)
(* opens the output, writes the header, handles the rows one at a time and *)
(* prints its report.  out_file is what the output path holds ("absent",   *)
(* "old": a file from before the run, "open", "closed"); out_lines are the *)
(* lines the run has written to the output file or to stdout.              *)
(***************************************************************************)
NotExited == <<>>
Exited(status) == <<status>>

runvars ==
    <<NAME_ID_MAP, mapping_files, cache_json, args, input, pc, address_cache,
      row_count, processed_count, unmapped_categories, unmapped_tags,
      out_file, out_lines, printed, exit_status>>

Init ==
    \E run \in Runs :
        /\ NAME_ID_MAP = <<>>
        /\ mapping_files = run.mapping_files
        /\ cache_json = run.cache_file
        /\ args = run.opts
        /\ input = run.input
        /\ pc = "main"
        /\ address_cache = CacheObject(<<>>)
        /\ row_count = 0
        /\ processed_count = 0
        /\ unmapped_categories = {}
        /\ unmapped_tags = {}
        /\ out_file = run.out_file
        /\ out_lines = <<>>
        /\ printed = <<>>
        /\ exit_status = NotExited
        /\ call = NoCall
        /\ ret = NoRet

\* Line 1118: the mapping is loaded.
MainLoadMap ==
    /\ pc = "main"
    /\ LET loaded == load_name_id_map(NAME_ID_MAP, mapping_files, MAPPING_PATH)
       IN  /\ loaded.out.exc = "none"
           /\ NAME_ID_MAP' = loaded.map
    /\ pc' = "transform_csv"
    /\ UNCHANGED <<mapping_files, cache_json, args, input, address_cache, row_count,
                   processed_count, unmapped_categories, unmapped_tags, out_file,
                   out_lines, printed, exit_status, call, ret>>

\* Line 1118: the load raises, and nothing in main() catches it.
MainLoadMapRaises ==
    /\ pc = "main"
    /\ LET loaded == load_name_id_map(NAME_ID_MAP, mapping_files, MAPPING_PATH)
       IN  /\ loaded.out.exc # "none"
           /\ printed' = Append(printed, [msg |-> "traceback", exc |-> loaded.out.exc])
    /\ exit_status' = Exited(1)
    /\ pc' = "exited"
    /\ UNCHANGED <<NAME_ID_MAP, mapping_files, cache_json, args, input, address_cache,
                   row_count, processed_count, unmapped_categories, unmapped_tags,
                   out_file, out_lines, call, ret>>

\* Lines 542-545: sys.exit(1); SystemExit passes the `except Exception` of
\* main().
InputNotFound ==
    /\ pc = "transform_csv"
    /\ ~input_file_exists(input)
    /\ printed' = Append(printed, [msg |-> "input_not_found"])
    /\ exit_status' = Exited(1)
    /\ pc' = "exited"
    /\ UNCHANGED <<NAME_ID_MAP, mapping_files, cache_json, args, input, address_cache,
                   row_count, processed_count, unmapped_categories, unmapped_tags,
                   out_file, out_lines, call, ret>>

\* Lines 547-635: the address cache is loaded, the input and the output are
\* opened, the header is written and the counters and trackers are set up.
OpenFiles ==
    /\ pc = "transform_csv"
    /\ input_file_exists(input)
    /\ address_cache' = IF args.use_address_cache
                        THEN load_address_cache(cache_json)
                        ELSE CacheObject(<<>>)
    /\ out_file' = IF use_stdout(args) THEN out_file ELSE "open"
    /\ out_lines' = <<fieldnames>>
    /\ row_count' = 0
    /\ processed_count' = 0
    /\ unmapped_categories' = {}
    /\ unmapped_tags' = {}
    /\ pc' = "loop"
    /\ UNCHANGED <<NAME_ID_MAP, mapping_files, cache_json, args, input, printed,
                   exit_status, call, ret>>

\* Lines 812-815.
closed_out_file == IF use_stdout(args) THEN out_file ELSE "closed"

\* A faulty variant of next_row: the reader starts again at the first row on
\* every turn of the loop of line 637.
next_row_Rewound == input.rows[1]

\* The row the reader gives next, and what the body of the loop does to it.
next_row == input.rows[row_count + 1]

next_row_done ==
    process_row(NAME_ID_MAP, args, address_cache, next_row,
                unmapped_categories, unmapped_tags)

\* A faulty variant of test_limit_reached: `>` in place of `>=`.
test_limit_reached_OffByOne == args.test_mode /\ processed_count > TEST_LIMIT

\* Lines 641-642.
test_limit_reached == args.test_mode /\ processed_count >= TEST_LIMIT

\* Lines 637-642: in test mode the loop is left at the first row read after
\* TEST_LIMIT rows were written.
TestModeBreak ==
    /\ pc = "loop"
    /\ row_count < Len(input.rows)
    /\ test_limit_reached
    /\ row_count' = row_count + 1
    /\ out_file' = closed_out_file
    /\ pc' = "report"
    /\ UNCHANGED <<NAME_ID_MAP, mapping_files, cache_json, args, input, address_cache,
                   processed_count, unmapped_categories, unmapped_tags, out_lines,
                   printed, exit_status, call, ret>>

\* Lines 644-675: a filter rejects the row.
RowSkipped ==
    /\ pc = "loop"
    /\ row_count < Len(input.rows)
    /\ ~test_limit_reached
    /\ LET body(done) ==
               /\ done.kind = "skip"
               /\ unmapped_categories' = done.unmapped_categories
               /\ unmapped_tags' = done.unmapped_tags
       IN  body(next_row_done)
    /\ row_count' = row_count + 1
    /\ UNCHANGED <<NAME_ID_MAP, mapping_files, cache_json, args, input, pc,
                   address_cache, processed_count, out_file, out_lines, printed,
                   exit_status, call, ret>>

\* Lines 677-811: the row is transformed and written.
RowWritten ==
    /\ pc = "loop"
    /\ row_count < Len(input.rows)
    /\ ~test_limit_reached
    /\ LET body(done) ==
               /\ done.kind = "write"
               /\ unmapped_categories' = done.unmapped_categories
               /\ unmapped_tags' = done.unmapped_tags
               /\ out_lines' = Append(out_lines, done.line)
       IN  body(next_row_done)
    /\ row_count' = row_count + 1
    /\ processed_count' = processed_count + 1
    /\ UNCHANGED <<NAME_ID_MAP, mapping_files, cache_json, args, input, pc,
                   address_cache, out_file, printed, exit_status, call, ret>>

\* An exception leaves the loop: the `finally` of lines 812-815 closes the
\* output, main() prints the error and exits with status 1 (1152-1154).
RowRaises ==
    /\ pc = "loop"
    /\ row_count < Len(input.rows)
    /\ ~test_limit_reached
    /\ LET body(done) ==
               /\ done.kind = "raise"
               /\ unmapped_categories' = done.unmapped_categories
               /\ unmapped_tags' = done.unmapped_tags
       IN  body(next_row_done)
    /\ row_count' = row_count + 1
    /\ out_file' = closed_out_file
    /\ printed' = Append(printed, [msg |-> "error_during_transformation"])
    /\ exit_status' = Exited(1)
    /\ pc' = "exited"
    /\ UNCHANGED <<NAME_ID_MAP, mapping_files, cache_json, args, input, address_cache,
                   processed_count, out_lines, call, ret>>

\* The reader is exhausted: the output is closed (812-815).
EndOfInput ==
    /\ pc = "loop"
    /\ row_count = Len(input.rows)
    /\ out_file' = closed_out_file
    /\ pc' = "report"
    /\ UNCHANGED <<NAME_ID_MAP, mapping_files, cache_json, args, input, address_cache,
                   row_count, processed_count, unmapped_categories, unmapped_tags,
                   out_lines, printed, exit_status, call, ret>>

\* Lines 817-844: the report, with the sorted unmapped names; transform_csv
\* returns and main() ends.
Report ==
    /\ pc = "report"
    /\ printed' = Append(printed,
                         [msg |-> "complete",
                          rows_read |-> row_count,
                          rows_processed |-> processed_count,
                          unmapped_categories |-> Sorted(unmapped_categories),
                          unmapped_tags |-> Sorted(unmapped_tags)])
    /\ exit_status' = Exited(0)
    /\ pc' = "done"
    /\ UNCHANGED <<NAME_ID_MAP, mapping_files, cache_json, args, input, address_cache,
                   row_count, processed_count, unmapped_categories, unmapped_tags,
                   out_file, out_lines, call, ret>>

Next ==
    \/ MainLoadMap
    \/ MainLoadMapRaises
    \/ InputNotFound
    \/ OpenFiles
    \/ TestModeBreak
    \/ RowSkipped
    \/ RowWritten
    \/ RowRaises
    \/ EndOfInput
    \/ Report

Spec == Init /\ [][Next]_vars

(***************************************************************************)
(* Inputs of the social-URL transform: a platform of SOCIAL_MEDIA_URLS or  *)
(* one that is not a key of it, and a value built from at most MaxPieces   *)
(* pieces (blank, '/', '@', a letter, the LinkedIn prefixes, the schemes,  *)
(* a host), or None.                                                       *)
(***************************************************************************)
Platforms == DOMAIN SOCIAL_MEDIA_URLS \cup {"other"}

SocialPieces ==
    {<<" ">>, <<"/">>, <<"@">>, <<"a">>, S_in, S_company,
     S_http_scheme, S_https_scheme,
     <<"w","w","w",".","f","a","c","e","b","o","o","k",".","c","o","m","/">>}

RECURSIVE PieceStrings(_)
\* The strings made of at most n pieces.
PieceStrings(n) ==
    IF n = 0 THEN {<<>>}
    ELSE LET shorter == PieceStrings(n - 1)
         IN  shorter \cup {s \o p : s \in shorter, p \in SocialPieces}

SocialValues == PieceStrings(MaxPieces) \cup {None}

\* No run of main() is under way.
NoRun ==
    /\ NAME_ID_MAP = <<>>
    /\ mapping_files = MappingFiles
    /\ cache_json = CacheAbsent
    /\ args = DefaultOpts
    /\ input = InputAbsent
    /\ pc = "idle"
    /\ address_cache = CacheObject(<<>>)
    /\ row_count = 0
    /\ processed_count = 0
    /\ unmapped_categories = {}
    /\ unmapped_tags = {}
    /\ out_file = "absent"
    /\ out_lines = <<>>
    /\ printed = <<>>
    /\ exit_status = NotExited

InitSocial ==
    /\ NoRun
    /\ call \in [fn : {"transform_social_url"}, platform : Platforms, value : SocialValues]
    /\ ret = NoRet

CallTransformSocialUrl ==
    /\ call.fn = "transform_social_url"
    /\ ret = NoRet
    /\ ret' = [done |-> TRUE, value |-> transform_social_url(call.platform, call.value)]
    /\ UNCHANGED <<call, runvars>>

NextSocial == CallTransformSocialUrl

SpecSocial == InitSocial /\ [][NextSocial]_vars

(***************************************************************************)
(* The functions of the module called one after another by a program that  *)
(* imports it: load_name_id_map, get_id_by_name, the two name-to-ID        *)
(* transforms with the caller's tracker sets, and the body of the loop of  *)
(* transform_csv for one row.  `call` is the last call and `ret` what it   *)
(* gave.                                                                   *)
(***************************************************************************)
ApiNames == {N_Eat, Lower(N_Eat), N_Beach, S_Zed}
ApiMapTypes == {"categories", "tags", "other"}
ApiTexts ==
    {None, <<>>, <<"E","a","t",",","Z","o","o">>, <<"b","e","a","c","h","|","Z","e","d">>}
ApiRows == {RowCafe, RowDive}

InitApi ==
    /\ NoRun
    /\ call = NoCall
    /\ ret = NoRet

ApiLoadNameIdMap ==
    \E json_path \in MappingPaths :
        LET loaded == load_name_id_map(NAME_ID_MAP, mapping_files, json_path)
        IN  /\ NAME_ID_MAP' = loaded.map
            /\ call' = [fn |-> "load_name_id_map", json_path |-> json_path]
            /\ ret' = [done |-> TRUE, out |-> loaded.out, opened |-> loaded.opened]
            /\ UNCHANGED <<mapping_files, cache_json, args, input, pc, address_cache,
                           row_count, processed_count, unmapped_categories,
                           unmapped_tags, out_file, out_lines, printed, exit_status>>

ApiGetIdByName ==
    \E name \in ApiNames, map_type \in ApiMapTypes :
        /\ call' = [fn |-> "get_id_by_name", name |-> name, map_type |-> map_type]
        /\ ret' = [done |-> TRUE, out |-> get_id_by_name(NAME_ID_MAP, name, map_type)]
        /\ UNCHANGED runvars

ApiTransformCategories ==
    \E text \in ApiTexts :
        LET done == transform_categories_to_ids(NAME_ID_MAP, text, unmapped_categories)
        IN  /\ unmapped_categories' = done.tracker
            /\ call' = [fn |-> "transform_categories_to_ids", text |-> text]
            /\ ret' = [done |-> TRUE, out |-> done.out]
            /\ UNCHANGED <<NAME_ID_MAP, mapping_files, cache_json, args, input, pc,
                           address_cache, row_count, processed_count, unmapped_tags,
                           out_file, out_lines, printed, exit_status>>

ApiTransformTags ==
    \E text \in ApiTexts :
        LET done == transform_tags_to_ids(NAME_ID_MAP, text, unmapped_tags)
        IN  /\ unmapped_tags' = done.tracker
            /\ call' = [fn |-> "transform_tags_to_ids", text |-> text]
            /\ ret' = [done |-> TRUE, out |-> done.out]
            /\ UNCHANGED <<NAME_ID_MAP, mapping_files, cache_json, args, input, pc,
                           address_cache, row_count, processed_count,
                           unmapped_categories, out_file, out_lines, printed,
                           exit_status>>

\* Lines 644-810 for one row, with the options and the cache of NoRun.
ApiProcessRow ==
    \E row \in ApiRows :
        LET body(done) ==
                /\ unmapped_categories' = done.unmapped_categories
                /\ unmapped_tags' = done.unmapped_tags
                /\ ret' = [done |-> TRUE, kind |-> done.kind, line |-> done.line]
        IN  /\ body(process_row(NAME_ID_MAP, args, address_cache, row,
                                unmapped_categories, unmapped_tags))
            /\ call' = [fn |-> "process_row", row |-> row]
            /\ UNCHANGED <<NAME_ID_MAP, mapping_files, cache_json, args, input, pc,
                           address_cache, row_count, processed_count, out_file,
                           out_lines, printed, exit_status>>

NextApi ==
    \/ ApiLoadNameIdMap
    \/ ApiGetIdByName
    \/ ApiTransformCategories
    \/ ApiTransformTags
    \/ ApiProcessRow

SpecApi == InitApi /\ [][NextApi]_vars

(***************************************************************************)
(* Inputs of the name-to-ID transforms: a map in place (or none), and a    *)
(* text of at most MaxNamePieces pieces (names as the maps have them and   *)
(* in other letter case, names they lack, the separators, a blank), or     *)
(* None.  One call of transform_names_to_ids, transform_categories_to_ids  *)
(* or transform_tags_to_ids is made with empty tracker sets, or one of     *)
(* get_first_category_id, or the loop body of transform_csv runs on a row. *)
(* The field transforms that read no map (format_phone, clean_url, the     *)
(* extractors, format_images_gallery) are called with none loaded.         *)
(***************************************************************************)
MaxNamePieces == 3

NamePieces ==
    {N_Eat, Lower(N_Eat), Lower(N_BBQ), S_Zed, N_Beach, <<" ">>, <<",">>, <<"|">>}

RECURSIVE NameStrings(_)
\* The texts made of at most n pieces.
NameStrings(n) ==
    IF n = 0 THEN {<<>>}
    ELSE LET shorter == NameStrings(n - 1)
         IN  shorter \cup {s \o p : s \in shorter, p \in NamePieces}

NameTexts == NameStrings(MaxNamePieces) \cup {None}

LoadedMaps ==
    {JsonNull, JsonObject(<<>>), JsonObject(Map_Full), JsonObject(Map_NoTags),
     JsonObject(Map_CategoriesOnly)}

\* Arguments of get_first_category_id: the strings of at most MaxIdPieces
\* pieces (an ID, digits, a letter, the comma, a blank), and None.
MaxIdPieces == 3

IdPieces == {<<"2","0","4","1">>, <<"7">>, <<"x">>, <<",">>, <<" ">>}

RECURSIVE IdStrings(_)
IdStrings(n) ==
    IF n = 0 THEN {<<>>}
    ELSE LET shorter == IdStrings(n - 1)
         IN  shorter \cup {s \o p : s \in shorter, p \in IdPieces}

IdTexts == IdStrings(MaxIdPieces) \cup {None}

CallRows == {RowCafe, RowDive, RowBlank, RowLean}

NameCalls ==
    [fn : {"transform_categories_to_ids", "transform_tags_to_ids"}, text : NameTexts]
        \cup [fn : {"transform_names_to_ids"}, text : NameTexts,
              map_type : {"categories"}, separators : {{"|", ","}}]
        \cup [fn : {"transform_names_to_ids"}, text : NameTexts,
              map_type : {"tags"}, separators : {{"|"}}]
        \cup [fn : {"get_first_category_id"}, text : IdTexts]
        \cup [fn : {"process_row"}, row : CallRows]

\* Arguments of format_phone: the strings of at most MaxPhonePieces pieces
\* (digit groups, a digit, punctuation, a blank, a letter), and None.
MaxPhonePieces == 3

PhonePieces ==
    {<<"3","4","0">>, <<"5","5","5">>, <<"1","2","3","4">>, <<"7">>,
     <<"-">>, <<"(">>, <<" ">>, <<"x">>}

RECURSIVE PhoneStrings(_)
PhoneStrings(n) ==
    IF n = 0 THEN {<<>>}
    ELSE LET shorter == PhoneStrings(n - 1)
         IN  shorter \cup {s \o p : s \in shorter, p \in PhonePieces}

PhoneTexts == PhoneStrings(MaxPhonePieces) \cup {None}

\* Arguments of clean_url: the strings of at most MaxUrlPieces pieces (the
\* two schemes, the letters 'http', a host, a blank), and None.
MaxUrlPieces == 3

UrlPieces ==
    {S_http_scheme, S_https_scheme, S_http, <<"b","i","n",".","o","r","g">>, <<" ">>}

RECURSIVE UrlStrings(_)
UrlStrings(n) ==
    IF n = 0 THEN {<<>>}
    ELSE LET shorter == UrlStrings(n - 1)
         IN  shorter \cup {s \o p : s \in shorter, p \in UrlPieces}

UrlTexts == UrlStrings(MaxUrlPieces) \cup {None}

\* Image references: a stem, a width (NO_WIDTH for none) and an extension;
\* the URL of one is the stem, '-WIDTHx9' when it has a width, and the
\* extension.
S_stem_a == <<"h","t","t","p",":","/","/","h","/","a">>
S_stem_A == <<"h","t","t","p",":","/","/","h","/","A">>
S_stem_b == <<"h","t","t","p",":","/","/","h","/","b">>

ImageRef(stem, width) == [stem |-> stem, width |-> width]

ImageRefs ==
    {ImageRef(S_stem_a, NO_WIDTH), ImageRef(S_stem_a, 300), ImageRef(S_stem_a, MASTER_WIDTH),
     ImageRef(S_stem_a, 2000), ImageRef(S_stem_A, NO_WIDTH), ImageRef(S_stem_b, 300)}

ImageUrl(ref) ==
    ref.stem \o (IF ref.width = NO_WIDTH THEN <<>>
                 ELSE <<"-">> \o NatToStr(ref.width) \o <<"x", "9">>) \o S_jpg

S_img_open == <<"<","i","m","g"," ","s","r","c","=","\"">>
S_img_close == <<"\"",">">>

RECURSIVE ImageHtml(_)
\* The content that shows the references in their order, one <img> each.
ImageHtml(refs) ==
    IF refs = <<>> THEN <<>>
    ELSE S_img_open \o ImageUrl(Head(refs)) \o S_img_close \o ImageHtml(Tail(refs))

\* Contents of extract_jpg_urls_from_content: at most MaxImages references.
MaxImages == 3

ImageCalls ==
    {[fn |-> "extract_jpg_urls_from_content", refs |-> refs, text |-> ImageHtml(refs)] :
         refs \in UNION {[1..n -> ImageRefs] : n \in 0..MaxImages}}
        \cup {[fn |-> "extract_jpg_urls_from_content", refs |-> <<>>, text |-> text] :
                 text \in {None, <<"<","p",">","h","i","<","/","p",">">>}}

\* Video references: a URL form and a video ID.  VideoIds lists the IDs in
\* the order of sorted(): 'B' < 'a' < 'b' by code point.
VideoIds == <<<<"B","1">>, <<"a","_","2">>, <<"b","1">>>>

VideoForms ==
    {<<"h","t","t","p","s",":","/","/","w","w","w",".">> \o S_youtube_embed,
     S_slashes \o S_youtube_watch,
     S_http_scheme \o S_youtu_be}

VideoRefs == [form : VideoForms, id : {VideoIds[i] : i \in 1..Len(VideoIds)}]

RECURSIVE VideoHtml(_)
\* The content that holds the references in their order, each in quotes
\* and followed by a blank.
VideoHtml(refs) ==
    IF refs = <<>> THEN <<>>
    ELSE <<"\"">> \o Head(refs).form \o Head(refs).id \o <<"\"", " ">>
             \o VideoHtml(Tail(refs))

\* Contents of extract_youtube_urls_from_content: at most MaxVideos
\* references.
MaxVideos == 2

VideoCalls ==
    {[fn |-> "extract_youtube_urls_from_content", refs |-> refs, text |-> VideoHtml(refs)] :
         refs \in UNION {[1..n -> VideoRefs] : n \in 0..MaxVideos}}
        \cup {[fn |-> "extract_youtube_urls_from_content", refs |-> <<>>, text |-> text] :
                 text \in {None, <<"<","p",">","h","i","<","/","p",">">>}}

\* Arguments of format_images_gallery: the strings of at most
\* MaxGalleryPieces pieces (a URL, a word, the separators ',', '|' and '::',
\* a blank, '[' and a quote), and None.
MaxGalleryPieces == 3

GalleryPieces ==
    {S_http_scheme \o <<"a">>, <<"b">>, <<",">>, <<"|">>, S_gd_sep, <<" ">>, <<"[">>,
     <<"\"">>}

RECURSIVE GalleryStrings(_)
GalleryStrings(n) ==
    IF n = 0 THEN {<<>>}
    ELSE LET shorter == GalleryStrings(n - 1)
         IN  shorter \cup {s \o p : s \in shorter, p \in GalleryPieces}

GalleryTexts == GalleryStrings(MaxGalleryPieces) \cup {None}

TextCalls ==
    [fn : {"format_phone"}, text : PhoneTexts]
        \cup [fn : {"format_images_gallery"}, text : GalleryTexts]
        \cup VideoCalls
        \cup ImageCalls
        \cup [fn : {"clean_url"}, text : UrlTexts]

InitNames ==
    /\ call \in NameCalls \cup TextCalls
    /\ NAME_ID_MAP \in (IF call \in TextCalls THEN {JsonNull} ELSE LoadedMaps)
    /\ mapping_files = MappingFiles
    /\ cache_json = CacheAbsent
    /\ args = DefaultOpts
    /\ input = InputAbsent
    /\ pc = "idle"
    /\ address_cache = CacheObject(<<>>)
    /\ row_count = 0
    /\ processed_count = 0
    /\ unmapped_categories = {}
    /\ unmapped_tags = {}
    /\ out_file = "absent"
    /\ out_lines = <<>>
    /\ printed = <<>>
    /\ exit_status = NotExited
    /\ ret = NoRet

\* transform_names_to_ids(text, map_type, separators, 2040, tracker), the
\* tracker being the set of that map type.
CallTransformNamesToIds ==
    /\ call.fn = "transform_names_to_ids"
    /\ ret = NoRet
    /\ LET finish(done) ==
               /\ ret' = [done |-> TRUE, out |-> done.out]
               /\ IF call.map_type = "categories"
                  THEN unmapped_categories' = done.tracker /\ UNCHANGED unmapped_tags
                  ELSE unmapped_tags' = done.tracker /\ UNCHANGED unmapped_categories
       IN  finish(transform_names_to_ids(
                      NAME_ID_MAP, call.text, call.map_type, call.separators,
                      FALLBACK_ID,
                      IF call.map_type = "categories" THEN unmapped_categories
                      ELSE unmapped_tags))
    /\ UNCHANGED <<NAME_ID_MAP, mapping_files, cache_json, args, input, pc,
                   address_cache, row_count, processed_count, out_file, out_lines,
                   printed, exit_status, call>>

CallTransformCategoriesToIds ==
    /\ call.fn = "transform_categories_to_ids"
    /\ ret = NoRet
    /\ LET finish(done) ==
               /\ ret' = [done |-> TRUE, out |-> done.out]
               /\ unmapped_categories' = done.tracker
       IN  finish(transform_categories_to_ids(NAME_ID_MAP, call.text,
                                              unmapped_categories))
    /\ UNCHANGED <<NAME_ID_MAP, mapping_files, cache_json, args, input, pc,
                   address_cache, row_count, processed_count, unmapped_tags,
                   out_file, out_lines, printed, exit_status, call>>

CallTransformTagsToIds ==
    /\ call.fn = "transform_tags_to_ids"
    /\ ret = NoRet
    /\ LET finish(done) ==
               /\ ret' = [done |-> TRUE, out |-> done.out]
               /\ unmapped_tags' = done.tracker
       IN  finish(transform_tags_to_ids(NAME_ID_MAP, call.text, unmapped_tags))
    /\ UNCHANGED <<NAME_ID_MAP, mapping_files, cache_json, args, input, pc,
                   address_cache, row_count, processed_count, unmapped_categories,
                   out_file, out_lines, printed, exit_status, call>>

CallGetFirstCategoryId ==
    /\ call.fn = "get_first_category_id"
    /\ ret = NoRet
    /\ ret' = [done |-> TRUE, out |-> Returns(get_first_category_id(call.text))]
    /\ UNCHANGED <<runvars, call>>

\* Lines 644-810 for the row of the call, with the default options and an
\* empty address cache.
CallProcessRow ==
    /\ call.fn = "process_row"
    /\ ret = NoRet
    /\ LET body(done) ==
               /\ unmapped_categories' = done.unmapped_categories
               /\ unmapped_tags' = done.unmapped_tags
               /\ ret' = [done |-> TRUE, kind |-> done.kind, line |-> done.line]
       IN  body(process_row(NAME_ID_MAP, args, address_cache, call.row,
                            unmapped_categories, unmapped_tags))
    /\ UNCHANGED <<NAME_ID_MAP, mapping_files, cache_json, args, input, pc,
                   address_cache, row_count, processed_count, out_file, out_lines,
                   printed, exit_status, call>>

CallFormatPhone ==
    /\ call.fn = "format_phone"
    /\ ret = NoRet
    /\ ret' = [done |-> TRUE, out |-> Returns(format_phone(call.text))]
    /\ UNCHANGED <<runvars, call>>

CallCleanUrl ==
    /\ call.fn = "clean_url"
    /\ ret = NoRet
    /\ ret' = [done |-> TRUE, out |-> Returns(clean_url(call.text))]
    /\ UNCHANGED <<runvars, call>>

CallExtractJpgUrls ==
    /\ call.fn = "extract_jpg_urls_from_content"
    /\ ret = NoRet
    /\ ret' = [done |-> TRUE, out |-> Returns(extract_jpg_urls_from_content(call.text))]
    /\ UNCHANGED <<runvars, call>>

CallExtractYoutubeUrls ==
    /\ call.fn = "extract_youtube_urls_from_content"
    /\ ret = NoRet
    /\ ret' = [done |-> TRUE, out |-> Returns(extract_youtube_urls_from_content(call.text))]
    /\ UNCHANGED <<runvars, call>>

CallFormatImagesGallery ==
    /\ call.fn = "format_images_gallery"
    /\ ret = NoRet
    /\ ret' = [done |-> TRUE, out |-> Returns(format_images_gallery(call.text))]
    /\ UNCHANGED <<runvars, call>>

NextNames ==
    \/ CallTransformNamesToIds
    \/ CallTransformCategoriesToIds
    \/ CallTransformTagsToIds
    \/ CallGetFirstCategoryId
    \/ CallProcessRow
    \/ CallFormatPhone
    \/ CallCleanUrl
    \/ CallExtractJpgUrls
    \/ CallExtractYoutubeUrls
    \/ CallFormatImagesGallery

SpecNames == InitNames /\ [][NextNames]_vars

(***************************************************************************)
(* Claims about transform_social_url (SpecSocial).                         *)
(***************************************************************************)
Returned == ret.done

\* The value as Python sees it after value.strip() (None has none).
Trimmed == Strip(call.value)

IsUrlValue ==
    /\ call.value # None
    /\ StartsWith(Trimmed, S_http_scheme) \/ StartsWith(Trimmed, S_https_scheme)

\* The trimmed value with its trailing '/' and then its leading '@' removed.
SlashAtRemoved == LStripIf(RStripIf(Trimmed, {"/"}), {"@"})

\* The handle: SlashAtRemoved trimmed once more.
Handle == Strip(SlashAtRemoved)

RECURSIVE FullyCleaned(_)
\* s with surrounding whitespace, trailing '/' and leading '@' removed until
\* none of them is left.
FullyCleaned(s) ==
    LET t == LStripIf(RStripIf(Strip(s), {"/"}), {"@"})
    IN  IF t = s THEN s ELSE FullyCleaned(t)

PlainPlatforms ==
    {"facebook", "twitter", "instagram", "pinterest", "youtube", "trip_advisor", "yelp"}

\* C1 as stated: for the seven plain platforms and a value that is not a URL
\* and is not empty once trailing '/' and leading '@' are removed (however
\* often the removal is repeated), the result is the base URL followed by
\* the value with surrounding whitespace, all trailing '/' and all leading
\* '@' removed.
C1_AsStated ==
    (/\ Returned
     /\ call.platform \in PlainPlatforms
     /\ call.value # None
     /\ ~IsUrlValue
     /\ SlashAtRemoved # <<>>
     /\ Handle # <<>>
     /\ FullyCleaned(call.value) # <<>>)
    => ret.value = SOCIAL_MEDIA_URLS[call.platform] \o FullyCleaned(call.value)

\* C1, with each removal done once and in the order of the code: for the
\* seven plain platforms and a value that is not a URL, the handle is the
\* value trimmed, then without its trailing '/', then without its leading
\* '@', then trimmed again; when the handle is not empty the result is the
\* base URL followed by it.
C1_BaseThenHandle ==
    (/\ Returned
     /\ call.platform \in PlainPlatforms
     /\ call.value # None
     /\ ~IsUrlValue
     /\ Handle # <<>>)
    => ret.value = SOCIAL_MEDIA_URLS[call.platform] \o Handle

\* youtube + '@a/' has returned 'https://www.youtube.com/@a'.
C1_Witness ==
    /\ Returned
    /\ call.platform = "youtube"
    /\ call.value = <<"@", "a", "/">>
    /\ ret.value = SOCIAL_MEDIA_URLS["youtube"] \o <<"a">>

\* C2: for every platform, a value that starts with 'https://' once trimmed
\* is returned as it is (trimmed), and one that starts with 'http://' is
\* returned with that leading scheme replaced by 'https://' and the rest
\* unchanged; no base URL is prepended and no '@' or '/' is stripped.
C2_UrlPassedThrough ==
    (Returned /\ call.value # None)
    => /\ StartsWith(Trimmed, S_https_scheme) => ret.value = Trimmed
       /\ StartsWith(Trimmed, S_http_scheme)
            => ret.value = S_https_scheme \o DropFirst(Trimmed, Len(S_http_scheme))

\* ' http://@/' has returned 'https://@/' for linkedin.
C2_Witness ==
    /\ Returned
    /\ call.platform = "linkedin"
    /\ call.value = <<" ">> \o S_http_scheme \o <<"@", "/">>
    /\ ret.value = S_https_scheme \o <<"@", "/">>

NothingRemains ==
    \/ Falsy(call.value)
    \/ Trimmed = <<>>
    \/ SlashAtRemoved = <<>>

IsBareBase ==
    /\ call.platform \in DOMAIN SOCIAL_MEDIA_URLS
    /\ ret.value = SOCIAL_MEDIA_URLS[call.platform]

\* C3 as stated: the result is '' whenever the value is empty, None, blank
\* or nothing remains of it after trimming and removing trailing '/' and
\* leading '@', and the result is never the platform's bare base URL.
C3_AsStated ==
    Returned => /\ NothingRemains => ret.value = <<>>
                /\ ~IsBareBase

\* C3, for values that are not URLs: the result is '' whenever the value is
\* empty, None, blank or nothing remains of it after trimming and removing
\* trailing '/' and leading '@', and for a value that is not itself a URL
\* the result is never the platform's bare base URL.
C3_EmptyNeverBareBase ==
    Returned => /\ NothingRemains => ret.value = <<>>
                /\ ~IsUrlValue => ~IsBareBase

\* ' @/' has returned '' for facebook.
C3_Witness ==
    /\ Returned
    /\ call.platform = "facebook"
    /\ call.value = <<" ", "@", "/">>
    /\ ret.value = <<>>

LinkedinBase == SOCIAL_MEDIA_URLS["linkedin"]

\* C4: for linkedin and a handle that is not a URL and not empty, the result
\* is the base URL followed by the handle when the handle starts with 'in/'
\* or 'company/', and the base URL, 'in/' and the handle otherwise; so the
\* result always starts with the base URL and one of 'in/', 'company/', and
\* what follows that segment is the handle without the segment it brought.
C4_LinkedinSegment ==
    (/\ Returned
     /\ call.platform = "linkedin"
     /\ call.value # None
     /\ ~IsUrlValue
     /\ Handle # <<>>)
    => /\ ret.value = IF StartsWith(Handle, S_in) \/ StartsWith(Handle, S_company)
                      THEN LinkedinBase \o Handle
                      ELSE LinkedinBase \o S_in \o Handle
       /\ \/ StartsWith(ret.value, LinkedinBase \o S_in)
          \/ StartsWith(ret.value, LinkedinBase \o S_company)
       /\ StartsWith(Handle, S_in)
            => DropFirst(ret.value, Len(LinkedinBase \o S_in)) = DropFirst(Handle, Len(S_in))
       /\ StartsWith(Handle, S_company)
            => DropFirst(ret.value, Len(LinkedinBase \o S_company))
                 = DropFirst(Handle, Len(S_company))

\* 'company/a' has returned 'https://www.linkedin.com/company/a'.
C4_Witness ==
    /\ Returned
    /\ call.platform = "linkedin"
    /\ call.value = S_company \o <<"a">>
    /\ ret.value = LinkedinBase \o S_company \o <<"a">>

(***************************************************************************)
(* Claims about a run of main() and transform_csv (Spec).                  *)
(***************************************************************************)
\* The names a Categories or Tags text holds: its pieces between the
\* separators, trimmed, the empty ones left out.
NamesOf(text, separators) ==
    IF Falsy(text) THEN {}
    ELSE {Strip(SplitOn(text, separators)[i]) :
            i \in 1..Len(SplitOn(text, separators))} \ {<<>>}

\* The name is a key of the loaded map's section, as written or in title
\* case.
InLoadedMap(name, section) ==
    /\ NAME_ID_MAP # <<>>
    /\ section \in DOMAIN NAME_ID_MAP[1]
    /\ \/ name \in DOMAIN NAME_ID_MAP[1][section]
       \/ Title(name) \in DOMAIN NAME_ID_MAP[1][section]

\* The rows a finished run has processed: the first processed_count rows of
\* the input that pass the filters.
ProcessedRows ==
    SubSeq(SelectSeq(input.rows, LAMBDA r : apply_filters(args, r) = "pass"),
           1, processed_count)

UnmappedIn(row, column, separators, section) ==
    {n \in NamesOf(Get(row, column, <<>>), separators) : ~InLoadedMap(n, section)}

UnmappedMet(column, separators, section) ==
    UNION {UnmappedIn(ProcessedRows[i], column, separators, section) :
             i \in 1..Len(ProcessedRows)}

\* The position of a column in the header the run has written, and the
\* value a written line has in it.
ColumnOf(name) == CHOOSE i \in 1..Len(out_lines[1]) : out_lines[1][i] = name
Field(line, name) == line[ColumnOf(name)]

FallbackText == <<",", "2", "0", "4", "0", ",">>

\* C5 as stated: when transform_csv has finished, every processed row that
\* holds a category or tag name missing from the loaded map (as written and
\* in title case) has the fallback ID 2040 in the matching output column,
\* the two trackers hold exactly the missing names met in the processed
\* rows and no name that was found, and the report prints them as the
\* warning lists.
C5_AsStated ==
    pc = "done" =>
        /\ Len(out_lines) = processed_count + 1
        /\ \A i \in 1..Len(ProcessedRows) :
              /\ UnmappedIn(ProcessedRows[i], "Categories", {"|", ","}, "categories") # {}
                   => Contains(<<",">> \o Field(out_lines[i + 1], "post_category"),
                               FallbackText)
              /\ UnmappedIn(ProcessedRows[i], "Tags", {"|"}, "tags") # {}
                   => Contains(<<",">> \o Field(out_lines[i + 1], "post_tags"),
                               FallbackText)
        /\ unmapped_categories = UnmappedMet("Categories", {"|", ","}, "categories")
        /\ unmapped_tags = UnmappedMet("Tags", {"|"}, "tags")
        /\ printed[Len(printed)].unmapped_categories = Sorted(unmapped_categories)
        /\ printed[Len(printed)].unmapped_tags = Sorted(unmapped_tags)

\* C6: when the input file does not exist, the only step transform_csv
\* takes prints the error message and ends the process with exit status 1;
\* in the whole run the output path keeps what it held (nothing is created
\* or truncated), no header and no line is written, and no row is read or
\* counted.
C6_MissingInputIsFatal ==
    [][~input.exists =>
          /\ UNCHANGED <<out_file, out_lines, row_count, processed_count>>
          /\ out_lines = <<>> /\ row_count = 0
          /\ pc \in {"main", "transform_csv"}
          /\ pc = "transform_csv" =>
                /\ pc' = "exited"
                /\ exit_status' = <<1>>
                /\ printed' = Append(printed, [msg |-> "input_not_found"])]_vars

\* The input is missing, an older file is at the output path, and the run
\* has ended in transform_csv with status 1 and the older file untouched.
C6_Witness ==
    /\ ~input.exists
    /\ NAME_ID_MAP # <<>>
    /\ pc = "exited"
    /\ exit_status = <<1>>
    /\ out_file = "old"
    /\ out_lines = <<>>
    /\ printed = <<[msg |-> "input_not_found"]>>

ConstantColumns ==
    ("post_type" :> <<"g","d","_","l","i","s","t","i","n","g","_","n","e","w">>)
        @@ ("featured" :> <<"0">>)
        @@ ("street2" :> <<>>)
        @@ ("city" :> <<"S","t","."," ","C","r","o","i","x">>)
        @@ ("region" :> <<"V","I">>)
        @@ ("country" :> <<"U","n","i","t","e","d"," ","S","t","a","t","e","s">>)
        @@ ("zip" :> <<>>)
        @@ ("youtube_url" :> <<>>)

HeaderIsGeoDirectory(header) ==
    /\ Len(header) = 45
    /\ header[1] = "ID"
    /\ header[2] = "post_title"
    /\ header[44] = "youtube_urls"
    /\ header[45] = "post_images"
    /\ \A i, j \in 1..Len(header) : header[i] = header[j] => i = j
    /\ DOMAIN ConstantColumns \cup {"website", "website_url"}
         \subseteq {header[i] : i \in 1..Len(header)}

\* C7: once transform_csv has opened its output, the output starts with the
\* header of 45 distinct columns from 'ID', 'post_title' to 'youtube_urls',
\* 'post_images' (also when no row is written); every line after it has
\* one value for each of these columns and no other; post_type, featured,
\* street2, city, region, country, zip and youtube_url hold their constants
\* and website equals website_url in every line.
C7_FixedColumns ==
    /\ pc \in {"loop", "report", "done"} => out_lines # <<>>
    /\ out_lines # <<>> =>
          /\ HeaderIsGeoDirectory(out_lines[1])
          /\ \A j \in 2..Len(out_lines) :
                /\ DOMAIN out_lines[j] = DOMAIN out_lines[1]
                /\ \A c \in DOMAIN ConstantColumns :
                      Field(out_lines[j], c) = ConstantColumns[c]
                /\ Field(out_lines[j], "website") = Field(out_lines[j], "website_url")

\* A run over a two-column export has finished: the line written for its
\* row has all 45 columns, with 'St. Croix' as city and no website.
C7_Witness ==
    /\ pc = "done"
    /\ input.rows = <<RowLean>>
    /\ Len(out_lines) = 2
    /\ Len(out_lines[2]) = 45
    /\ Field(out_lines[2], "city") = <<"S","t","."," ","C","r","o","i","x">>
    /\ Field(out_lines[2], "website") = <<>>

\* C9: the line written for an input row is the line the loop body gives
\* for that row alone, from the options, the map and the address cache of
\* the run and with empty unmapped-name sets: it depends on no row read
\* before it, and what the sets hold decides no field of it.
C9_RowDependsOnItself ==
    [][(pc = "loop" /\ Len(out_lines') = Len(out_lines) + 1)
         => out_lines'[Len(out_lines')]
              = process_row(NAME_ID_MAP, args, address_cache, input.rows[row_count'],
                            {}, {}).line]_vars

\* RowCafe has been written after RowDive, whose unmapped names 'zoo' and
\* 'Zoo' were in the set when RowCafe, which holds 'Zoo' too, was handled.
C9_Witness ==
    /\ input.rows = <<RowDive, RowCafe>>
    /\ args = DefaultOpts
    /\ Len(out_lines) = 3
    /\ <<"Z","o","o">> \in unmapped_categories
    /\ <<"z","o","o">> \in unmapped_categories
    /\ Field(out_lines[3], "post_category")
         = <<",","2","0","4","1",",","2","0","4","0",",">>

LookupMode ==
    /\ args.default_lat = None
    /\ args.default_lng = None
    /\ ~args.skip_geocoding

Centre == <<<<"1","7",".","7","4","7","8">>, <<"-","6","4",".","7","0","5","9">>>>

\* The gazetteer entries a location matches: the one of that name, or, when
\* there is none, those whose name occurs in the location.
EntriesMatching(location) ==
    LET named == {i \in 1..Len(LOCATION_COORDS) : LOCATION_COORDS[i].name = location}
    IN  IF named # {} THEN named
        ELSE {i \in 1..Len(LOCATION_COORDS) :
                Contains(location, LOCATION_COORDS[i].name)}

\* C10: in location-lookup mode every written line has a non-empty latitude
\* and longitude; when the trimmed, lower-cased location matches gazetteer
\* entries the two are the pair of one of them, and otherwise (no location,
\* or none recognised) they are the St. Croix centre.
C10_CoordinatesFromOneEntry ==
    LookupMode =>
        \A j \in 2..Len(out_lines) :
            LET pair == <<Field(out_lines[j], "latitude"),
                          Field(out_lines[j], "longitude")>>
                location == Lower(Strip(Field(out_lines[j], "location")))
            IN  /\ pair[1] # <<>>
                /\ pair[2] # <<>>
                /\ IF location # <<>> /\ EntriesMatching(location) # {}
                   THEN \E i \in EntriesMatching(location) :
                            pair = LOCATION_COORDS[i].coords
                   ELSE pair = Centre

\* A run in lookup mode has written RowCafe with the pair of Christiansted
\* and RowDive, whose location 'The Pier' is not in the gazetteer, with the
\* centre.
C10_Witness ==
    /\ LookupMode
    /\ input.rows = <<RowCafe, RowDive>>
    /\ Len(out_lines) = 3
    /\ Field(out_lines[2], "location") = <<"C","h","r","i","s","t","i","a","n","s","t","e","d">>
    /\ Field(out_lines[2], "latitude") # Centre[1]
    /\ \E i \in 1..Len(LOCATION_COORDS) :
          /\ LOCATION_COORDS[i].name = <<"c","h","r","i","s","t","i","a","n","s","t","e","d">>
          /\ LOCATION_COORDS[i].coords
               = <<Field(out_lines[2], "latitude"), Field(out_lines[2], "longitude")>>
    /\ Field(out_lines[3], "latitude") = Centre[1]
    /\ Field(out_lines[3], "longitude") = Centre[2]

(***************************************************************************)
(* Claims about the functions called one after another (SpecApi).          *)
(***************************************************************************)
\* C8: once a load has left a map in place, no later call changes it: not
\* load_name_id_map with any path, get_id_by_name, the two transforms or
\* the handling of a row; and a load_name_id_map call made then returns
\* without opening the file and without raising.
C8_LoadedOnce ==
    [][NAME_ID_MAP # <<>> =>
          /\ NAME_ID_MAP' = NAME_ID_MAP
          /\ call'.fn = "load_name_id_map" =>
                /\ ret'.out.exc = "none"
                /\ ~ret'.opened]_vars

\* The map of no_tags.json is in place, names have gone through the
\* transforms since, and load_name_id_map of a path that does not exist has
\* just returned.
C8_Witness ==
    /\ NAME_ID_MAP = <<Map_NoTags>>
    /\ unmapped_categories # {}
    /\ call = [fn |-> "load_name_id_map", json_path |-> "missing.json"]
    /\ ret.done
    /\ ret.out.exc = "none"
    /\ ~ret.opened

FixedMode ==
    \/ args.default_lat # None
    \/ args.default_lng # None
    \/ args.skip_geocoding

\* C11: when --lat, --lng or --skip-geocoding is given, all written lines
\* carry one coordinate pair whatever their location: the latitude is --lat
\* when it is given and else '17.7478' under --skip-geocoding, the longitude
\* is --lng when it is given and else '-64.7059' under --skip-geocoding.
C11_FixedCoordinates ==
    FixedMode =>
        \A j \in 2..Len(out_lines) :
            /\ args.default_lat # None
                 => Field(out_lines[j], "latitude") = args.default_lat
            /\ (args.default_lat = None /\ args.skip_geocoding)
                 => Field(out_lines[j], "latitude") = Centre[1]
            /\ args.default_lng # None
                 => Field(out_lines[j], "longitude") = args.default_lng
            /\ (args.default_lng = None /\ args.skip_geocoding)
                 => Field(out_lines[j], "longitude") = Centre[2]
            /\ Field(out_lines[j], "latitude") = Field(out_lines[2], "latitude")
            /\ Field(out_lines[j], "longitude") = Field(out_lines[2], "longitude")

\* With --lat 18.1 and --skip-geocoding, RowCafe (Christiansted) and a line
\* that ends before acf_location have both been written with '18.1' and
\* the centre's longitude.
C11_Witness ==
    /\ args.default_lat = <<"1","8",".","1">>
    /\ args.default_lng = None
    /\ args.skip_geocoding
    /\ input.rows = <<RowCafe, RowShort>>
    /\ Len(out_lines) = 3
    /\ \A j \in 2..3 :
          /\ Field(out_lines[j], "latitude") = <<"1","8",".","1">>
          /\ Field(out_lines[j], "longitude") = Centre[2]

\* C12 as stated: whatever combination of --lat, --lng and --skip-geocoding
\* is given, every written line has a non-empty latitude and a non-empty
\* longitude.
C12_AsStated ==
    \A j \in 2..Len(out_lines) :
        /\ Field(out_lines[j], "latitude") # <<>>
        /\ Field(out_lines[j], "longitude") # <<>>

\* The text of a column of an input row ('' when the row has none).
TextOf(row, column) ==
    IF Get(row, column, <<>>) = None THEN <<>> ELSE Get(row, column, <<>>)

\* A filter that was not supplied, or one of whose comma-separated values
\* (trimmed) occurs in the text, letter case ignored.
FilterAccepts(filter, text) ==
    \/ filter = None
    \/ \E i \in 1..Len(SplitOn(filter, {","})) :
          Contains(Lower(text), Lower(Strip(SplitOn(filter, {","})[i])))

RowAccepted(row) ==
    /\ FilterAccepts(args.category_filter, TextOf(row, "Categories"))
    /\ FilterAccepts(args.tags_filter, TextOf(row, "Tags"))
    /\ FilterAccepts(args.layouts_filter, TextOf(row, "acf_template_layout"))

\* C13: filtering is the conjunction of the supplied filters.  When the loop
\* reads a row (short of the test-mode limit), a row that every supplied
\* filter accepts is the row written next, unless its handling raises; a
\* row that some filter rejects leaves the output, the count of processed
\* rows and both unmapped-name sets as they were.
C13_FiltersAreConjoined ==
    [][(/\ pc = "loop"
        /\ row_count' = row_count + 1
        /\ ~(args.test_mode /\ processed_count >= 5))
         => IF RowAccepted(input.rows[row_count'])
            THEN pc' = "loop"
                   => /\ Len(out_lines') = Len(out_lines) + 1
                      /\ Field(out_lines'[Len(out_lines')], "ID")
                           = TextOf(input.rows[row_count'], "id")
                      /\ Field(out_lines'[Len(out_lines')], "post_title")
                           = TextOf(input.rows[row_count'], "Title")
            ELSE UNCHANGED <<out_lines, processed_count, unmapped_categories,
                             unmapped_tags>>]_vars

\* With the filters 'eat', 'beach' and 'wide', RowDive was rejected by the
\* category filter and RowCafe, which all three accept, was written; the
\* unmapped 'zoo' of RowDive is in no set.
C13_Witness ==
    /\ pc = "done"
    /\ args.category_filter = <<"e","a","t">>
    /\ args.tags_filter = <<"b","e","a","c","h">>
    /\ args.layouts_filter = <<"w","i","d","e">>
    /\ input.rows = <<RowDive, RowCafe>>
    /\ Len(out_lines) = 2
    /\ Field(out_lines[2], "ID") = <<"7">>
    /\ unmapped_categories = {<<"Z","o","o">>}

\* The input rows every supplied filter accepts, in their order, and the
\* ones of them a finished run is to write: the first five in test mode,
\* all of them otherwise.
AcceptedRows == SelectSeq(input.rows, RowAccepted)

RowsToWrite ==
    IF args.test_mode /\ Len(AcceptedRows) > 5
    THEN SubSeq(AcceptedRows, 1, 5)
    ELSE AcceptedRows

\* C14: in test mode the output never holds more than five lines after the
\* header, and once five are written no step writes a line, counts a row as
\* processed or adds to an unmapped-name set; a finished run has written
\* the first five accepted rows in test mode and every accepted row
\* without it.
C14_TestModeFirstFive ==
    /\ [](/\ args.test_mode => Len(out_lines) <= 1 + 5
          /\ pc = "done" =>
                /\ Len(out_lines) = 1 + Len(RowsToWrite)
                /\ \A i \in 1..Len(RowsToWrite) :
                      /\ Field(out_lines[i + 1], "ID") = TextOf(RowsToWrite[i], "id")
                      /\ Field(out_lines[i + 1], "post_title")
                           = TextOf(RowsToWrite[i], "Title"))
    /\ [][(args.test_mode /\ processed_count >= 5)
            => UNCHANGED <<out_lines, processed_count, unmapped_categories,
                           unmapped_tags>>]_vars

\* A test-mode run over five RowCafe lines and then RowDive has finished:
\* five lines are written, RowDive was read but not handled, and its
\* unmapped 'zoo' is in no set.
C14_Witness ==
    /\ pc = "done"
    /\ args.test_mode
    /\ args.category_filter = None
    /\ input.rows = <<RowCafe, RowCafe, RowCafe, RowCafe, RowCafe, RowDive>>
    /\ Len(out_lines) = 6
    /\ row_count = 6
    /\ <<"z","o","o">> \notin unmapped_categories

\* The address the cache file on disk gives for a business name: '' when
\* the cache option is off, the file is missing or unreadable, or the name
\* is not in it.
CachedAddress(name) ==
    IF /\ args.use_address_cache
       /\ cache_json.kind = "object"
       /\ name \in DOMAIN cache_json.data
    THEN cache_json.data[name]
    ELSE <<>>

StreetFor(name) ==
    IF CachedAddress(name) # <<>> THEN CachedAddress(name)
    ELSE IF args.enable_default_address
    THEN <<"1","2","3"," ","K","i","n","g"," ","S","t","r","e","e","t">>
    ELSE <<>>

\* The last row read has a field that is None (its line is shorter than
\* the header).
LastRowIsShort ==
    /\ row_count >= 1
    /\ \E c \in DOMAIN input.rows[row_count] : input.rows[row_count][c] = None

NameSeq(text, separators) ==
    IF Falsy(text) THEN <<>>
    ELSE LET pieces == SplitOn(text, separators)
         IN  SelectSeq([i \in 1..Len(pieces) |-> Strip(pieces[i])],
                       LAMBDA name : name # <<>>)

\* The ID a name stands for in a section of the loaded map: the one of the
\* name as written, else the one of its title-case form, else 2040.
IdProducedBy(name, section) ==
    IF ~InLoadedMap(name, section) THEN 2040
    ELSE IF name \in DOMAIN NAME_ID_MAP[1][section]
    THEN NAME_ID_MAP[1][section][name]
    ELSE NAME_ID_MAP[1][section][Title(name)]

RECURSIVE FirstOccurrences(_)
\* A sequence without the later occurrences of its elements.
FirstOccurrences(s) ==
    IF s = <<>> THEN <<>>
    ELSE LET front == FirstOccurrences(SubSeq(s, 1, Len(s) - 1))
         IN  IF \E i \in 1..Len(front) : front[i] = s[Len(s)] THEN front
             ELSE Append(front, s[Len(s)])

RECURSIVE CommaList(_)
\* ',ID1,ID2,...,IDn,' for a non-empty sequence of IDs; ',' for the empty one.
CommaList(ids) ==
    IF ids = <<>> THEN <<",">>
    ELSE CommaList(SubSeq(ids, 1, Len(ids) - 1)) \o NatToStr(ids[Len(ids)]) \o <<",">>

\* The IDs of a text's names in a section, each once, in the order of the
\* first name that produced it.
IdsOf(text, separators, section) ==
    LET names == NameSeq(text, separators)
    IN  FirstOccurrences([i \in 1..Len(names) |-> IdProducedBy(names[i], section)])

\* '' for a text without names, else the comma-wrapped list of IdsOf.
IdListOf(text, separators, section) ==
    IF IdsOf(text, separators, section) = <<>> THEN <<>>
    ELSE CommaList(IdsOf(text, separators, section))

IdsOfCall == IdsOf(call.text, call.separators, call.map_type)

NamesCallReturned ==
    /\ call.fn = "transform_names_to_ids"
    /\ ret.done
    /\ NAME_ID_MAP # JsonNull

\* C16: with a map loaded, transform_names_to_ids returns the empty string
\* when the text holds no name (it is empty, blank, or only separators and
\* blanks) and otherwise ',ID1,...,IDn,': the IDs of its names in the order of
\* the first name that produced each, none twice, so that several unmapped
\* names give one 2040 at the place of the first of them.
C16_CommaListOfFirstIds ==
    NamesCallReturned =>
        /\ ret.out.exc = "none"
        /\ ret.out.value = IF IdsOfCall = <<>> THEN <<>> ELSE CommaList(IdsOfCall)

\* Two unmapped names, 'Zed,bbq', gave a single 2040: ',2040,'.
C16_Witness ==
    /\ NamesCallReturned
    /\ NAME_ID_MAP = JsonObject(Map_Full)
    /\ call.map_type = "categories"
    /\ call.text = S_Zed \o <<",">> \o Lower(N_BBQ)
    /\ ret.out = Returns(<<",","2","0","4","0",",">>)
\* The loaded map has a 'tags' section with at least one entry.
TagMappingsExist ==
    /\ NAME_ID_MAP # JsonNull
    /\ "tags" \in DOMAIN NAME_ID_MAP[1]
    /\ DOMAIN NAME_ID_MAP[1]["tags"] # {}

TagsCallReturned == call.fn = "transform_tags_to_ids" /\ ret.done

CategoriesCallReturned ==
    /\ call.fn = "transform_categories_to_ids"
    /\ ret.done
    /\ NAME_ID_MAP # JsonNull

TrackerOfCall ==
    IF call.map_type = "categories" THEN unmapped_categories ELSE unmapped_tags

\* The names of the map section of the call that differ from a name in
\* letter case at most.
SameButForCase(name) ==
    IF call.map_type \notin DOMAIN NAME_ID_MAP[1] THEN {}
    ELSE {key \in DOMAIN NAME_ID_MAP[1][call.map_type] : Lower(key) = Lower(name)}

\* C19 as stated: the lookup of transform_names_to_ids is case-insensitive;
\* a name of the text that differs from a name of the map in letter case
\* only gets that name's ID and is not recorded as unmapped.
C19_AsStated ==
    NamesCallReturned =>
        \A name \in NamesOf(call.text, call.separators) :
            \A key \in SameButForCase(name) :
                /\ ret.out.exc = "none"
                /\ Contains(ret.out.value,
                            <<",">> \o NatToStr(NAME_ID_MAP[1][call.map_type][key])
                                    \o <<",">>)
                /\ name \notin TrackerOfCall

(***************************************************************************)
(* Claims about the ID columns of the written rows (Spec).                 *)
(***************************************************************************)
\* C18 as stated: when no tag mappings are loaded, every written row whose
\* 'Tags' field holds a tag name has post_tags ',2040,'.
C18_AsStated ==
    \A i \in 1..Len(ProcessedRows) :
        /\ i + 1 <= Len(out_lines)
        /\ ~TagMappingsExist
        /\ NamesOf(TextOf(ProcessedRows[i], "Tags"), {"|"}) # {}
        => Field(out_lines[i + 1], "post_tags") = FallbackText
(***************************************************************************)
(* Claims about default_category (SpecNames).                              *)
(***************************************************************************)
\* The value a written line has in a column of the output header.
Written(line, name) ==
    line[CHOOSE i \in 1..Len(fieldnames) : fieldnames[i] = name]

\* The elements of a comma-separated string, blanks around each dropped.
ElementsOf(text) ==
    IF Falsy(text) THEN <<>>
    ELSE [i \in 1..Len(SplitOn(text, {","})) |-> Strip(SplitOn(text, {","})[i])]

AllDigits(s) == s # <<>> /\ \A i \in 1..Len(s) : s[i] \in Digits

\* The first all-digit element of a string, '2040' when it has none.
FirstIdOr2040(text) ==
    LET elements == ElementsOf(text)
        digits == {i \in 1..Len(elements) : AllDigits(elements[i])}
    IN  IF digits = {} THEN <<"2","0","4","0">>
        ELSE elements[CHOOSE i \in digits : \A j \in digits : i <= j]

RowWasWritten == call.fn = "process_row" /\ ret.done /\ ret.kind = "write"

FirstIdCallReturned == call.fn = "get_first_category_id" /\ ret.done

\* C20: in every written row default_category is the first ID listed in the
\* row's post_category, '2040' when post_category is empty, and never
\* empty; get_first_category_id returns the first all-digit element of its
\* argument and '2040' when the argument is empty, blank, None or has no
\* all-digit element.
C20_DefaultIsFirstCategory ==
    /\ RowWasWritten =>
           /\ Written(ret.line, "default_category") # <<>>
           /\ Written(ret.line, "post_category") = <<>>
                  => Written(ret.line, "default_category") = <<"2","0","4","0">>
           /\ Written(ret.line, "post_category") # <<>>
                  => Written(ret.line, "default_category")
                       = SplitOn(Written(ret.line, "post_category"), {","})[2]
    /\ FirstIdCallReturned =>
           ret.out = Returns(FirstIdOr2040(call.text))

\* A row without categories was written with default_category '2040', the
\* row's post_category being empty.
C20_Witness ==
    /\ RowWasWritten
    /\ call.row = RowBlank
    /\ NAME_ID_MAP = JsonObject(Map_Full)
    /\ Written(ret.line, "post_category") = <<>>
    /\ Written(ret.line, "default_category") = <<"2","0","4","0">>
(***************************************************************************)
(* Claims about the field transforms (SpecNames).                          *)
(***************************************************************************)
\* The characters of a text that are digits, in their order.
DigitsIn(text) ==
    IF Falsy(text) THEN <<>>
    ELSE SelectSeq(text, LAMBDA c : c \in {"0","1","2","3","4","5","6","7","8","9"})

Dash == <<"-">>

PhoneCallReturned == call.fn = "format_phone" /\ ret.done

\* C21: format_phone decides on the digits of its input alone: ten digits
\* give 'DDD-DDD-DDDD' made of them in order, seven give '340-DDD-DDDD',
\* any other count gives the input back unchanged ('' for an empty input or
\* None), and format_phone of the result is the result.
C21_PhoneByDigitCount ==
    PhoneCallReturned =>
        LET d == DigitsIn(call.text)
        IN  /\ ret.out.exc = "none"
            /\ Len(d) = 10 =>
                   ret.out.value = SubSeq(d, 1, 3) \o Dash \o SubSeq(d, 4, 6)
                                       \o Dash \o SubSeq(d, 7, 10)
            /\ Len(d) = 7 =>
                   ret.out.value = <<"3","4","0">> \o Dash \o SubSeq(d, 1, 3)
                                       \o Dash \o SubSeq(d, 4, 7)
            /\ Len(d) \notin {7, 10} =>
                   ret.out.value = IF call.text = None THEN <<>> ELSE call.text
            /\ format_phone(ret.out.value) = ret.out.value

\* '555 1234' was given the area code: '340-555-1234'.
C21_Witness ==
    /\ PhoneCallReturned
    /\ call.text = <<"5","5","5"," ","1","2","3","4">>
    /\ ret.out = Returns(<<"3","4","0","-","5","5","5","-","1","2","3","4">>)
UrlCallReturned == call.fn = "clean_url" /\ ret.done

HasProtocol(s) == StartsWith(s, S_http_scheme) \/ StartsWith(s, S_https_scheme)

\* C22 as stated: clean_url returns '' for an empty or blank input and
\* otherwise a string that starts with 'http://' or 'https://': the trimmed
\* input when it already starts with one of them, and 'https://' followed
\* by the trimmed input in every other case.
C22_AsStated ==
    UrlCallReturned =>
        LET trimmed == IF call.text = None THEN <<>> ELSE Strip(call.text)
        IN  /\ ret.out.exc = "none"
            /\ trimmed = <<>> => ret.out.value = <<>>
            /\ trimmed # <<>> =>
                   /\ HasProtocol(ret.out.value)
                   /\ ret.out.value = IF HasProtocol(trimmed) THEN trimmed
                                      ELSE S_https_scheme \o trimmed
RECURSIVE GdEntries(_)
\* 'URL1|||::URL2|||::...' for a sequence of URLs, '' for the empty one.
GdEntries(urls) ==
    IF urls = <<>> THEN <<>>
    ELSE urls[1] \o <<"|","|","|">>
             \o (IF Len(urls) = 1 THEN <<>> ELSE <<":",":">> \o GdEntries(Tail(urls)))

RECURSIVE FirstIgnoringCase(_)
\* A sequence of strings without those equal, ignoring letter case, to an
\* earlier one.
FirstIgnoringCase(s) ==
    IF s = <<>> THEN <<>>
    ELSE LET front == FirstIgnoringCase(SubSeq(s, 1, Len(s) - 1))
         IN  IF \E i \in 1..Len(front) : Lower(front[i]) = Lower(s[Len(s)]) THEN front
             ELSE Append(front, s[Len(s)])

\* The URL that stands for the references of one stem: the one without a
\* width if there is one, else the one of width 1440, else the widest.
ChosenUrl(refs, stem) ==
    LET widths == {refs[i].width : i \in {j \in 1..Len(refs) : refs[j].stem = stem}}
    IN  IF NO_WIDTH \in widths THEN ImageUrl(ImageRef(stem, NO_WIDTH))
        ELSE IF 1440 \in widths THEN ImageUrl(ImageRef(stem, 1440))
        ELSE ImageUrl(ImageRef(stem, CHOOSE w \in widths : \A v \in widths : v <= w))

\* One URL for each group of references that share a stem, the groups in the
\* order of their first reference.
GroupUrls(refs) ==
    LET stems == FirstOccurrences([i \in 1..Len(refs) |-> refs[i].stem])
    IN  [g \in 1..Len(stems) |-> ChosenUrl(refs, stems[g])]

ImagesCallReturned == call.fn = "extract_jpg_urls_from_content" /\ ret.done

\* C23 as stated: extract_jpg_urls_from_content emits exactly one URL for
\* each group of image URLs that share a base name, the groups in order of
\* first occurrence; no two emitted URLs are equal ignoring letter case and
\* every emitted URL occurs in the content.
C23_AsStated ==
    ImagesCallReturned =>
        LET urls == GroupUrls(call.refs)
        IN  /\ ret.out = Returns(GdEntries(urls))
            /\ \A i, j \in 1..Len(urls) : i # j => Lower(urls[i]) # Lower(urls[j])
            /\ \A i \in 1..Len(urls) : Contains(call.text, urls[i])

\* C23: extract_jpg_urls_from_content emits at most one URL for each group
\* of image URLs that share a base name (compared exactly): the group's URL
\* without a resolution suffix, else its variant of width 1440, else its
\* widest variant, the groups in order of first occurrence, except that a
\* group whose URL equals an earlier emitted URL ignoring letter case emits
\* nothing; every emitted URL occurs in the content.
C23_OnePerGroupButCaseDuplicates ==
    ImagesCallReturned =>
        LET urls == FirstIgnoringCase(GroupUrls(call.refs))
        IN  /\ ret.out = Returns(GdEntries(urls))
            /\ \A i \in 1..Len(urls) : Contains(call.text, urls[i])

\* Of the groups a.jpg, A.jpg and b.jpg, in that order, the second emitted
\* nothing: 'http://h/a.jpg|||::http://h/b-300x9.jpg|||'.
C23_Witness ==
    /\ ImagesCallReturned
    /\ call.refs = <<ImageRef(S_stem_a, NO_WIDTH), ImageRef(S_stem_A, NO_WIDTH),
                     ImageRef(S_stem_b, 300)>>
    /\ ret.out = Returns(ImageUrl(ImageRef(S_stem_a, NO_WIDTH)) \o <<"|","|","|",":",":">>
                             \o ImageUrl(ImageRef(S_stem_b, 300)) \o <<"|","|","|">>)
VideosCallReturned == call.fn = "extract_youtube_urls_from_content" /\ ret.done

\* The embed URLs of the video IDs referred to, each once, in sorted order.
EmbedUrls(refs) ==
    LET referred == SelectSeq(VideoIds, LAMBDA id : \E i \in 1..Len(refs) : refs[i].id = id)
    IN  [k \in 1..Len(referred) |->
            <<"h","t","t","p","s",":","/","/","w","w","w",".","y","o","u","t","u","b","e",
              ".","c","o","m","/","e","m","b","e","d","/">> \o referred[k]]

\* C24: extract_youtube_urls_from_content turns the YouTube URLs of the
\* content ('//', an optional 'www.', then youtube.com/embed/ID,
\* youtube.com/watch?v=ID or youtu.be/ID) into entries
\* 'https://www.youtube.com/embed/ID|||' joined by '::', one for each distinct
\* ID whatever the number and the forms of its URLs, in the order of the
\* sorted IDs and not of the content; it returns '' without such a URL.
C24_VideosOncePerIdSorted ==
    VideosCallReturned => ret.out = Returns(GdEntries(EmbedUrls(call.refs)))

\* 'b1' as a youtu.be URL and then 'B1' as a watch URL gave the entry of
\* 'B1' before that of 'b1'.
C24_Witness ==
    /\ VideosCallReturned
    /\ Len(call.refs) = 2
    /\ call.refs[1] = [form |-> S_http_scheme \o S_youtu_be, id |-> <<"b","1">>]
    /\ call.refs[2] = [form |-> S_slashes \o S_youtube_watch, id |-> <<"B","1">>]
    /\ ret.out = Returns(GdEntries(<<S_embed_url \o <<"B","1">>, S_embed_url \o <<"b","1">>>>))
GalleryCallReturned == call.fn = "format_images_gallery" /\ ret.done

\* '' or a string that ends with the '|||' of an entry.
EndsAsEntry(s) ==
    s = <<>> \/ (Len(s) >= 3 /\ SubSeq(s, Len(s) - 2, Len(s)) = <<"|","|","|">>)

\* C25 as stated: format_images_gallery returns a value that contains '::'
\* unchanged, returns entries 'URL|||' joined by '::' for every other
\* non-empty input, and maps its own output to itself.
C25_AsStated ==
    GalleryCallReturned /\ ~Falsy(call.text) =>
        /\ Contains(call.text, <<":",":">>) => ret.out = Returns(call.text)
        /\ ~Contains(call.text, <<":",":">>) => EndsAsEntry(ret.out.value)
        /\ format_images_gallery(ret.out.value) = ret.out.value
(***************************************************************************)
(* Claims about the pass over the input (Spec).                            *)
(***************************************************************************)
NoFilterGiven ==
    /\ Falsy(args.category_filter)
    /\ Falsy(args.tags_filter)
    /\ Falsy(args.layouts_filter)

\* The written lines are those of the input rows at the positions of
\* `written`, in the order of the input.
WrittenFrom(written) ==
    /\ Cardinality(written) = Len(out_lines) - 1
    /\ \A i \in written :
          LET line == out_lines[1 + Cardinality({j \in written : j <= i})]
          IN  /\ Field(line, "ID") = TextOf(input.rows[i], "id")
              /\ Field(line, "post_title") = TextOf(input.rows[i], "Title")

\* C26: transform_csv makes one pass over the input.  At every point of the
\* run the rows written are at most the rows read, each written line comes
\* from a row of its own among those read and the lines are in the order of
\* their rows; a step that writes a line reads one row and writes one line,
\* and no step goes back in the input; without filter and test mode the
\* counts reported at the end are both the number of input rows.
C26_OnePassInOrder ==
    /\ [](/\ processed_count <= row_count
          /\ row_count <= Len(input.rows)
          /\ out_lines # <<>> =>
                /\ Len(out_lines) = 1 + processed_count
                /\ \E written \in SUBSET (1..row_count) : WrittenFrom(written)
          /\ pc = "done" /\ NoFilterGiven /\ ~args.test_mode =>
                /\ printed[Len(printed)].rows_read = Len(input.rows)
                /\ printed[Len(printed)].rows_processed = Len(input.rows))
    /\ [][/\ row_count' >= row_count
          /\ out_lines # <<>> /\ out_lines' # out_lines =>
                /\ Len(out_lines') = Len(out_lines) + 1
                /\ row_count' = row_count + 1
                /\ processed_count' = processed_count + 1]_vars

\* A run without filter ended after the rows Cafe and Dive, in that order,
\* and reported two rows read and two processed.
C26_Witness ==
    /\ pc = "done"
    /\ NoFilterGiven
    /\ ~args.test_mode
    /\ input.rows = <<RowCafe, RowDive>>
    /\ Len(out_lines) = 3
    /\ Field(out_lines[2], "ID") = TextOf(RowCafe, "id")
    /\ Field(out_lines[3], "ID") = TextOf(RowDive, "id")
    /\ printed[Len(printed)].rows_read = 2
    /\ printed[Len(printed)].rows_processed = 2

====
